---- MODULE Spec2Model ----
(***************************************************************************)
(* Model of the kcp-users-controller reconciliation engine                 *)
(* (UserReconciler.Reconcile and its helpers), of the two Directory Client *)
(* bindings it is run with (cognito.AWSClient over a Cognito user pool and *)
(* the in-memory cognito.MockClient), and of the object store the         *)
(* reconciler reads and writes.                                            *)
(*                                                                         *)
(* A reconcile pass is modelled call by call: every action is one call to  *)
(* an external collaborator (object store or Directory Client) together    *)
(* with the local computation that follows it up to the next call.  At     *)
(* most one pass per resource is in flight; passes of different resources  *)
(* interleave at the calls.                                                *)
(***************************************************************************)
EXTENDS Integers, Sequences, FiniteSets, TLC

(***************************************************************************)
(* Bounds of the model.                                                    *)
(***************************************************************************)
\* total number of reconcile passes begun (over all resources)
MaxPasses == 3
\* total number of spec changes made by the owners
MaxSpecChanges == 1
\* total number of injected failures (directory calls and store writes)
MaxFaults == 1
\* the clock of the liveness specification stops at this time
MaxTime == 2
\* longest finalizer list the finalizer helpers are run on
MaxFinalizers == 3
\* number of calls in a run of the Directory Client alone
MaxClientCalls == 3
\* number of pages Cognito splits a listing into, and entries per page
MaxPages == 2
MaxPageSize == 2

(***************************************************************************)
(* Values.                                                                 *)
(***************************************************************************)
\* local names of the User resources
Names == {"alice", "bob"}
\* values an owner can put into spec.email (optional: it may be empty)
Emails == {"", "a@x", "b@x"}
\* subject ids the Cognito pool hands out, in this order
SubIds == <<"sub-1", "sub-2", "sub-3", "sub-4", "sub-5", "sub-6">>
\* Directory Client configured in the reconciler: nil, MockClient, AWSClient
Bindings == {"none", "mock", "aws"}

finalizerName == "kcp.cogniteo.io/user-pool-cleanup"
\* the strings a finalizer list can hold: the cleanup finalizer and foreign ones
Markers == {finalizerName, "other.io/finalizer", "example.com/hold"}
\* the finalizer lists of at most MaxFinalizers entries
FinalizerLists == UNION {[1..n -> Markers] : n \in 0..MaxFinalizers}
CONFIRMED == "CONFIRMED"
\* ctrl.Result{RequeueAfter: time.Minute * 5}, in minutes
RequeueMinutes == 5

\* a nil *userpool.User
NilUser == [Username |-> "", Email |-> "", Enabled |-> FALSE, Sub |-> ""]

(***************************************************************************)
(* Finalizer helpers.                                                      *)
(***************************************************************************)
containsFinalizer(finalizers, finalizer) ==
    \E i \in 1..Len(finalizers) : finalizers[i] = finalizer

RECURSIVE removeFinalizerFrom(_, _, _)
removeFinalizerFrom(finalizers, finalizer, i) ==
    IF i > Len(finalizers) THEN <<>>
    ELSE IF finalizers[i] # finalizer
         THEN <<finalizers[i]>> \o removeFinalizerFrom(finalizers, finalizer, i + 1)
         ELSE removeFinalizerFrom(finalizers, finalizer, i + 1)

removeFinalizerKeepsAll(finalizers, finalizer) == finalizers

\* removeFinalizer whose loop starts at the second entry
removeFinalizerOffByOne(finalizers, finalizer) ==
    removeFinalizerFrom(finalizers, finalizer, 2)

\* removeFinalizer that stops filtering after the first occurrence
RECURSIVE removeFinalizerFirstOnly(_, _)
removeFinalizerFirstOnly(finalizers, finalizer) ==
    IF finalizers = <<>> THEN <<>>
    ELSE IF Head(finalizers) = finalizer THEN Tail(finalizers)
    ELSE <<Head(finalizers)>> \o removeFinalizerFirstOnly(Tail(finalizers), finalizer)

removeFinalizer(finalizers, finalizer) ==
    removeFinalizerFrom(finalizers, finalizer, 1)

\* whether the slice removeFinalizer returns is nil: it starts from
\* `result := []string{}`, an empty slice that is not nil, and only appends
removeFinalizerReturnsNil(finalizers, finalizer) == FALSE

(***************************************************************************)
(* The user pool: a set of accounts                                        *)
(*   [Username, Email, Enabled, Sub], at most one per Username.            *)
(* For MockClient it is the map m.users (key = Username); for AWSClient it *)
(* is the Cognito pool behind the CognitoAPI.                              *)
(***************************************************************************)
Lookup(pool, key) == {a \in pool : a.Username = key}

\* Cognito resolves the Username parameter of its Admin* calls to the
\* account with that username or, failing that, with that sub.
Resolve(pool, id) ==
    IF Lookup(pool, id) # {} THEN Lookup(pool, id)
    ELSE {a \in pool : a.Sub = id}

Account(s) == CHOOSE a \in s : TRUE

Reply(p, u, e, n) == [pool |-> p, user |-> u, err |-> e, subs |-> n]

(***************************************************************************)
(* cognito.MockClient                                                      *)
(***************************************************************************)
MockCreateUser(pool, user, n) ==
    IF user.Username = "" THEN Reply(pool, NilUser, "Invalid", n)
    ELSE IF Lookup(pool, user.Username) # {}
         THEN Reply(pool, Account(Lookup(pool, user.Username)), "", n)
         ELSE LET createdUser == [Username |-> user.Username, Email |-> user.Email,
                                  Enabled |-> user.Enabled, Sub |-> user.Username]
              IN  Reply(pool \cup {createdUser}, createdUser, "", n)

MockGetUser(pool, username, n) ==
    IF username = "" THEN Reply(pool, NilUser, "Invalid", n)
    ELSE IF Lookup(pool, username) = {}
         THEN Reply(pool, NilUser, "NotFound", n)
         ELSE Reply(pool, Account(Lookup(pool, username)), "", n)

MockUpdateUser(pool, user, n) ==
    IF user.Username = "" THEN Reply(pool, NilUser, "Invalid", n)
    ELSE IF Lookup(pool, user.Username) = {}
         THEN Reply(pool, NilUser, "NotFound", n)
         ELSE Reply((pool \ Lookup(pool, user.Username))
                        \cup {[Username |-> user.Username, Email |-> user.Email,
                               Enabled |-> user.Enabled, Sub |-> ""]},
                    NilUser, "", n)

MockDeleteUser(pool, username, n) ==
    IF username = "" THEN Reply(pool, NilUser, "Invalid", n)
    ELSE IF Lookup(pool, username) = {}
         THEN Reply(pool, NilUser, "NotFound", n)
         ELSE Reply(pool \ Lookup(pool, username), NilUser, "", n)

(***************************************************************************)
(* The Cognito API behind cognito.AWSClient (interface CognitoAPI).  Each  *)
(* call answers [pool, out, err, subs]; fail = TRUE is a failure of the    *)
(* call that is not one of the typed exceptions (network, throttling).     *)
(***************************************************************************)
AdminCreateUser(pool, username, email, n, fail) ==
    IF fail THEN Reply(pool, NilUser, "Transient", n)
    ELSE IF Lookup(pool, username) # {}
         THEN Reply(pool, NilUser, "UsernameExistsException", n)
         ELSE LET created == [Username |-> username, Email |-> email,
                              Enabled |-> TRUE, Sub |-> SubIds[n + 1]]
              IN  Reply(pool \cup {created}, created, "", n + 1)

AdminGetUser(pool, username, n, fail) ==
    IF fail THEN Reply(pool, NilUser, "Transient", n)
    ELSE IF Resolve(pool, username) = {}
         THEN Reply(pool, NilUser, "UserNotFoundException", n)
         ELSE Reply(pool, Account(Resolve(pool, username)), "", n)

AdminUpdateUserAttributes(pool, username, email, n, fail) ==
    IF fail THEN Reply(pool, NilUser, "Transient", n)
    ELSE IF Resolve(pool, username) = {}
         THEN Reply(pool, NilUser, "UserNotFoundException", n)
         ELSE LET a == Account(Resolve(pool, username))
              IN  Reply((pool \ {a}) \cup {[a EXCEPT !.Email = email]}, NilUser, "", n)

\* AdminEnableUser (enabled = TRUE) and AdminDisableUser (enabled = FALSE)
AdminSetEnabled(pool, username, enabled, n, fail) ==
    IF fail THEN Reply(pool, NilUser, "Transient", n)
    ELSE IF Resolve(pool, username) = {}
         THEN Reply(pool, NilUser, "UserNotFoundException", n)
         ELSE LET a == Account(Resolve(pool, username))
              IN  Reply((pool \ {a}) \cup {[a EXCEPT !.Enabled = enabled]}, NilUser, "", n)

AdminDeleteUser(pool, username, n, fail) ==
    IF fail THEN Reply(pool, NilUser, "Transient", n)
    ELSE IF Resolve(pool, username) = {}
         THEN Reply(pool, NilUser, "UserNotFoundException", n)
         ELSE Reply(pool \ Resolve(pool, username), NilUser, "", n)

(***************************************************************************)
(* cognito.AWSClient.  f names the API call of the operation that fails:   *)
(* "ok" none, "fail1" the first, "fail2" the second.                       *)
(***************************************************************************)
Faults == {"ok", "fail1", "fail2"}

AWSGetUser(pool, username, n, f) ==
    IF username = "" THEN Reply(pool, NilUser, "Invalid", n)
    ELSE LET output == AdminGetUser(pool, username, n, f = "fail1")
         IN  IF output.err # "" THEN Reply(pool, NilUser, output.err, n)
             ELSE Reply(pool, [Username |-> username, Email |-> output.user.Email,
                               Enabled |-> output.user.Enabled, Sub |-> username],
                        "", n)

\* AWSCreateUser that returns UsernameExistsException like any other failure
AWSCreateUserFailsOnExisting(pool, user, n, f) ==
    IF user.Email = "" THEN Reply(pool, NilUser, "Invalid", n)
    ELSE LET resp == AdminCreateUser(pool, user.Email, user.Email, n, f = "fail1")
         IN  IF resp.err # "" THEN Reply(pool, NilUser, resp.err, n)
             ELSE Reply(resp.pool,
                        [Username |-> user.Username, Email |-> user.Email,
                         Enabled |-> user.Enabled, Sub |-> resp.user.Sub],
                        "", resp.subs)

AWSCreateUser(pool, user, n, f) ==
    IF user.Email = "" THEN Reply(pool, NilUser, "Invalid", n)
    ELSE LET resp == AdminCreateUser(pool, user.Email, user.Email, n, f = "fail1")
         IN  IF resp.err = "UsernameExistsException"
             THEN AWSGetUser(pool, user.Email, n, IF f = "fail2" THEN "fail1" ELSE "ok")
             ELSE IF resp.err # "" THEN Reply(pool, NilUser, resp.err, n)
             ELSE Reply(resp.pool,
                        [Username |-> user.Username, Email |-> user.Email,
                         Enabled |-> user.Enabled,
                         Sub |-> IF resp.user.Sub # "" THEN resp.user.Sub
                                 ELSE user.Email],
                        "", resp.subs)

AWSUpdateUser(pool, user, n, f) ==
    IF user.Username = "" THEN Reply(pool, NilUser, "Invalid", n)
    ELSE LET upd == AdminUpdateUserAttributes(pool, user.Username, user.Email, n,
                                              f = "fail1")
         IN  IF upd.err # "" THEN Reply(pool, NilUser, upd.err, n)
             ELSE LET en == AdminSetEnabled(upd.pool, user.Username, user.Enabled, n,
                                            f = "fail2")
                  IN  IF en.err # "" THEN Reply(upd.pool, NilUser, en.err, n)
                      ELSE Reply(en.pool, NilUser, "", n)

AWSDeleteUser(pool, username, n, f) ==
    IF username = "" THEN Reply(pool, NilUser, "Invalid", n)
    ELSE LET out == AdminDeleteUser(pool, username, n, f = "fail1")
         IN  IF out.err = "UserNotFoundException" THEN Reply(pool, NilUser, "", n)
             ELSE IF out.err # "" THEN Reply(pool, NilUser, out.err, n)
             ELSE Reply(out.pool, NilUser, "", n)

(***************************************************************************)
(* The requests an operation of AWSClient sends to the Cognito API, in     *)
(* order, each with the Username it carries and the error it came back     *)
(* with.  MockClient sends none.                                           *)
(***************************************************************************)
ApiCall(api, username, err) == [api |-> api, Username |-> username, err |-> err]

AWSGetUserApi(pool, username, n, f) ==
    IF username = "" THEN <<>>
    ELSE <<ApiCall("AdminGetUser", username,
                   AdminGetUser(pool, username, n, f = "fail1").err)>>

\* AWSCreateUserApi that checks the e-mail only after AdminCreateUser was sent
AWSCreateUserApiUnvalidated(pool, user, n, f) ==
    LET resp == AdminCreateUser(pool, user.Email, user.Email, n, f = "fail1")
    IN  <<ApiCall("AdminCreateUser", user.Email, resp.err)>>
        \o (IF resp.err = "UsernameExistsException"
            THEN AWSGetUserApi(pool, user.Email, n,
                               IF f = "fail2" THEN "fail1" ELSE "ok")
            ELSE <<>>)

AWSCreateUserApi(pool, user, n, f) ==
    IF user.Email = "" THEN <<>>
    ELSE LET resp == AdminCreateUser(pool, user.Email, user.Email, n, f = "fail1")
         IN  <<ApiCall("AdminCreateUser", user.Email, resp.err)>>
             \o (IF resp.err = "UsernameExistsException"
                 THEN AWSGetUserApi(pool, user.Email, n,
                                    IF f = "fail2" THEN "fail1" ELSE "ok")
                 ELSE <<>>)

\* AWSUpdateUserApi that enables or disables the user even when the update of
\* the attributes has failed
AWSUpdateUserApiIgnoresFailure(pool, user, n, f) ==
    IF user.Username = "" THEN <<>>
    ELSE LET upd == AdminUpdateUserAttributes(pool, user.Username, user.Email, n,
                                              f = "fail1")
             en == AdminSetEnabled(upd.pool, user.Username, user.Enabled, n,
                                   f = "fail2")
         IN  <<ApiCall("AdminUpdateUserAttributes", user.Username, upd.err),
               ApiCall(IF user.Enabled THEN "AdminEnableUser" ELSE "AdminDisableUser",
                       user.Username, en.err)>>

AWSUpdateUserApi(pool, user, n, f) ==
    IF user.Username = "" THEN <<>>
    ELSE LET upd == AdminUpdateUserAttributes(pool, user.Username, user.Email, n,
                                              f = "fail1")
             en == AdminSetEnabled(upd.pool, user.Username, user.Enabled, n,
                                   f = "fail2")
         IN  <<ApiCall("AdminUpdateUserAttributes", user.Username, upd.err)>>
             \o (IF upd.err # "" THEN <<>>
                 ELSE <<ApiCall(IF user.Enabled THEN "AdminEnableUser"
                                ELSE "AdminDisableUser",
                                user.Username, en.err)>>)

AWSDeleteUserApi(pool, username, n, f) ==
    IF username = "" THEN <<>>
    ELSE <<ApiCall("AdminDeleteUser", username,
                   AdminDeleteUser(pool, username, n, f = "fail1").err)>>

\* the requests operation op of binding b sends, called with the identifier
\* id (GetUser, DeleteUser) or the account u (CreateUser, UpdateUser)
ApiCalls(b, op, pool, id, u, n, f) ==
    IF b # "aws" THEN <<>>
    ELSE IF op = "GetUser" THEN AWSGetUserApi(pool, id, n, f)
    ELSE IF op = "CreateUser" THEN AWSCreateUserApi(pool, u, n, f)
    ELSE IF op = "UpdateUser" THEN AWSUpdateUserApi(pool, u, n, f)
    ELSE AWSDeleteUserApi(pool, id, n, f)

(***************************************************************************)
(* userpool.Client as the reconciler sees it: the configured binding.      *)
(***************************************************************************)
CreateUser(b, pool, user, n, f) ==
    IF b = "aws" THEN AWSCreateUser(pool, user, n, f) ELSE MockCreateUser(pool, user, n)

GetUser(b, pool, username, n, f) ==
    IF b = "aws" THEN AWSGetUser(pool, username, n, f) ELSE MockGetUser(pool, username, n)

UpdateUser(b, pool, user, n, f) ==
    IF b = "aws" THEN AWSUpdateUser(pool, user, n, f) ELSE MockUpdateUser(pool, user, n)

DeleteUser(b, pool, username, n, f) ==
    IF b = "aws" THEN AWSDeleteUser(pool, username, n, f) ELSE MockDeleteUser(pool, username, n)

\* the failures the binding b can inject into one operation
FaultsOf(b) == IF b = "aws" THEN Faults ELSE {"ok"}

(***************************************************************************)
(* The User resource (api/v1alpha1) and the object store.                  *)
(* A time is a positive number, 0 is "not set" (nil).                      *)
(***************************************************************************)
EmptyStatus == [Sub |-> "", UserPoolStatus |-> "", LastSyncTime |-> 0]

NewUser(email, enabled) ==
    [exists |-> TRUE, DeletionTimestamp |-> FALSE, Finalizers |-> <<>>,
     Spec |-> [Email |-> email, Enabled |-> enabled],
     Status |-> EmptyStatus, lastReconciledAt |-> 0]

\* the platform removes an object that is being deleted once no finalizer is left
Collect(obj) ==
    IF obj.DeletionTimestamp /\ obj.Finalizers = <<>>
    THEN [obj EXCEPT !.exists = FALSE] ELSE obj

\* StoreUpdate of a resource whose status is not a subresource: the status is
\* written with the rest of the object
StoreUpdateWithStatus(stored, obj) ==
    Collect([stored EXCEPT !.Finalizers = obj.Finalizers,
                           !.Spec = obj.Spec,
                           !.Status = obj.Status,
                           !.lastReconciledAt = obj.lastReconciledAt])

\* client.Update: replaces metadata and spec of the stored object by those of
\* the object passed; the status is a subresource and is not written, and the
\* deletion timestamp is set by the platform only.
StoreUpdate(stored, obj) ==
    Collect([stored EXCEPT !.Finalizers = obj.Finalizers,
                           !.Spec = obj.Spec,
                           !.lastReconciledAt = obj.lastReconciledAt])

\* client.Status().Update: replaces the status of the stored object only.
StoreStatusUpdate(stored, obj) == [stored EXCEPT !.Status = obj.Status]

(***************************************************************************)
(* Local computations of Reconcile, syncUserWithUserPool and               *)
(* deleteUserFromUserPool.                                                 *)
(***************************************************************************)
\* addFinalizer that puts the finalizer in front of the list
addFinalizerInFront(finalizers, finalizer) == <<finalizer>> \o finalizers

addFinalizer(finalizers, finalizer) == Append(finalizers, finalizer)

poolUserOf(name, u) ==
    [Username |-> name, Email |-> u.Spec.Email, Enabled |-> u.Spec.Enabled, Sub |-> ""]

\* identifier syncUserWithUserPool looks the account up with
syncIdentifier(u) == IF u.Status.Sub # "" THEN u.Status.Sub ELSE u.Spec.Email

\* cleanupIdentifier that ignores the stored sub
cleanupIdentifierNameOnly(username, sub) == username

\* identifier deleteUserFromUserPool looks up and deletes
cleanupIdentifier(username, sub) == IF sub = "" THEN username ELSE sub

\* needsUpdate comparing the e-mail only
needsUpdateEmailOnly(existingUser, poolUser) ==
    existingUser.Email # poolUser.Email

needsUpdate(existingUser, poolUser) ==
    existingUser.Email # poolUser.Email \/ existingUser.Enabled # poolUser.Enabled

\* statusAfterCreate that does not set the pool status
statusAfterCreateNoPoolStatus(u, createdUser, now) ==
    [u EXCEPT !.Status.Sub = createdUser.Sub, !.Status.LastSyncTime = now]

statusAfterCreate(u, createdUser, now) ==
    [u EXCEPT !.Status = [Sub |-> createdUser.Sub, UserPoolStatus |-> CONFIRMED,
                          LastSyncTime |-> now]]

\* statusAfterFound that does not stamp the sync time
statusAfterFoundNoStamp(u, existingUser, now) ==
    [u EXCEPT !.Status.Sub = IF u.Status.Sub = "" THEN existingUser.Sub
                             ELSE u.Status.Sub]

statusAfterFound(u, existingUser, now) ==
    [u EXCEPT !.Status.LastSyncTime = now,
              !.Status.Sub = IF u.Status.Sub = "" THEN existingUser.Sub
                             ELSE u.Status.Sub]

stampAnnotation(u, now) == [u EXCEPT !.lastReconciledAt = now]

\* afterFinalizer without the check that a client is configured
afterFinalizerAlwaysSync(b) == "sync_get"

\* where a pass on a fetched, non-deleting object goes after the finalizer step
afterFinalizer(b) == IF b # "none" THEN "sync_get" ELSE "update"

\* firstStep without the finalizer step
firstStepSkipFinalizer(b, u) ==
    IF u.DeletionTimestamp
    THEN IF b # "none" THEN "cleanup_get" ELSE "remove_finalizer"
    ELSE afterFinalizer(b)

\* firstStep with the whole deletion branch under the client check
firstStepDeletionNeedsClient(b, u) ==
    IF u.DeletionTimestamp /\ b # "none"
    THEN "cleanup_get"
    ELSE IF ~containsFinalizer(u.Finalizers, finalizerName)
         THEN "add_finalizer"
         ELSE afterFinalizer(b)

\* where a pass goes with the object it fetched
firstStep(b, u) ==
    IF u.DeletionTimestamp
    THEN IF b # "none" THEN "cleanup_get" ELSE "remove_finalizer"
    ELSE IF ~containsFinalizer(u.Finalizers, finalizerName)
         THEN "add_finalizer"
         ELSE afterFinalizer(b)

(***************************************************************************)
(* State.                                                                  *)
(***************************************************************************)
VARIABLES
    binding,       \* r.UserPoolClient: "none" (nil), "mock" or "aws"
    pool,          \* the accounts of the user pool
    subs,          \* number of subject ids the pool has handed out
    store,         \* the object store: name -> User
    pc,            \* name -> position of the pass in flight, "idle" if none
    user,          \* name -> the pass's in-memory copy (var user)
    fetched,       \* name -> the object as the pass fetched it
    existingUser,  \* name -> the account GetUser returned to the pass
    calls,         \* name -> the calls the current (or last) pass has made
    result,        \* name -> what the last pass returned
    passes,        \* name -> number of passes begun; the resource's time
    createdBy,     \* name -> usernames of the pool accounts its passes created
    changes,       \* spec changes made so far
    faults,        \* failures injected so far
    lastSynced,    \* name -> time, fetched spec and pool of its last completed pass
    finalizerRun,  \* a run of the finalizer helpers on a list of their own
    clientRun,     \* the last call of a caller that uses the Directory Client alone
    listRun,       \* a call of AWSClient.ListUsers and the paged listing it reads
    concurrentRun, \* passes run at the same time: where they started, overlaps
    findRun        \* a call of findUserPoolIDByName and the pools it lists

\* the state of the helper runs, which Reconcile does not touch
aux == <<finalizerRun, clientRun, listRun, concurrentRun, findRun>>

\* the state Reconcile, the object store and the user pool work on
reconcilerVars == <<binding, pool, subs, store, pc, user, fetched, existingUser,
                    calls, result, passes, createdBy, changes, faults, lastSynced>>

vars == <<reconcilerVars, aux>>

NoResult == [outcome |-> "none", err |-> "", cause |-> "", RequeueAfter |-> 0]
Success  == [outcome |-> "success", err |-> "", cause |-> "", RequeueAfter |-> 0]
Failure(err, cause, requeue) ==
    [outcome |-> "error", err |-> err, cause |-> cause, RequeueAfter |-> requeue]

\* a call of the pass: the operation, the identifier or account passed, the
\* error and account returned, and the accounts the call added to the pool
Call(op, id, u, err, out, made) ==
    [op |-> op, id |-> id, user |-> u, err |-> err, out |-> out, made |-> made]

\* syncFailure without the requeue hint
syncFailureNoRequeue(msg, cause) == Failure(msg, cause, 0)

\* what Reconcile returns when syncUserWithUserPool fails
syncFailure(msg, cause) == Failure(msg, cause, RequeueMinutes)

\* no run of the finalizer helpers
NoFinalizerRun ==
    [step |-> "off", original |-> <<>>, finalizers |-> <<>>, finalizer |-> "",
     result |-> <<>>, resultIsNil |-> TRUE]

\* no pass of the resource has completed the create/update path
NeverSynced == [at |-> 0, Spec |-> [Email |-> "", Enabled |-> FALSE], pool |-> {}]

\* the reconciler, the object store and the user pool before the first pass
ReconcilerInit ==
    /\ binding \in Bindings
    /\ pool = {}
    /\ subs = 0
    /\ store = [r \in Names |->
                   NewUser(IF r = "alice" THEN "a@x" ELSE "b@x", TRUE)]
    /\ pc = [r \in Names |-> "idle"]
    /\ user = [r \in Names |-> NewUser("", FALSE)]
    /\ fetched = [r \in Names |-> NewUser("", FALSE)]
    /\ existingUser = [r \in Names |-> NilUser]
    /\ calls = [r \in Names |-> <<>>]
    /\ result = [r \in Names |-> NoResult]
    /\ passes = [r \in Names |-> 0]
    /\ createdBy = [r \in Names |-> {}]
    /\ changes = 0
    /\ faults = 0
    /\ lastSynced = [r \in Names |-> NeverSynced]

\* no call made on the Directory Client alone
NoClientRun ==
    [n |-> 0, op |-> "none", id |-> "", user |-> NilUser, fault |-> "ok",
     before |-> {}, err |-> "", out |-> NilUser, reported |-> {},
     api |-> <<>>, retry |-> FALSE]

\* a nil *string (PaginationToken); a token is the number of the page it asks for
NilToken == 0

\* no call of ListUsers
NoListRun ==
    [step |-> "off", pages |-> <<>>, failAt |-> 0, nextToken |-> NilToken,
     requests |-> <<>>, users |-> <<>>, usersIsNil |-> TRUE, err |-> ""]

\* the object store, the user pool and the times of the resources
World(st, pl, n, t) == [store |-> st, pool |-> pl, subs |-> n, passes |-> t]

\* no passes run at the same time; inside[r] is -1 while the pass of r is not
\* inside a method of MockClient, else the number of calls the pass had made
\* when it entered the method
NoConcurrentRun ==
    [phase |-> "off",
     base |-> World([r \in Names |-> NewUser("", FALSE)], {}, 0,
                    [r \in Names |-> 0]),
     started |-> {}, inside |-> [r \in Names |-> -1], crashed |-> FALSE]

\* no call of findUserPoolIDByName
NoFindRun ==
    [step |-> "off", userPoolName |-> "", pages |-> <<>>, failAt |-> 0,
     nextToken |-> NilToken, requests |-> <<>>, id |-> "", err |-> ""]

Init ==
    /\ ReconcilerInit
    /\ finalizerRun = NoFinalizerRun
    /\ clientRun = NoClientRun
    /\ listRun = NoListRun
    /\ concurrentRun = NoConcurrentRun
    /\ findRun = NoFindRun

RECURSIVE SumOver(_, _)
SumOver(f, S) ==
    IF S = {} THEN 0
    ELSE LET x == CHOOSE y \in S : TRUE IN f[x] + SumOver(f, S \ {x})

Total(f) == SumOver(f, DOMAIN f)

\* a pass of r ends, returning res
Return(r, res) ==
    /\ pc' = [pc EXCEPT ![r] = "idle"]
    /\ result' = [result EXCEPT ![r] = res]

\* an injected failure is counted
Inject(fail) ==
    /\ fail => faults < MaxFaults
    /\ faults' = IF fail THEN faults + 1 ELSE faults

(***************************************************************************)
(* The owner of a resource and the platform.                               *)
(***************************************************************************)
OwnerUpdateSpec(r) ==
    /\ store[r].exists
    /\ changes < MaxSpecChanges
    /\ \E email \in Emails, enabled \in BOOLEAN :
          /\ [Email |-> email, Enabled |-> enabled] # store[r].Spec
          /\ store' = [store EXCEPT ![r].Spec = [Email |-> email, Enabled |-> enabled]]
    /\ changes' = changes + 1
    /\ UNCHANGED <<aux, lastSynced, binding, pool, subs, pc, user, fetched,
                   existingUser, calls, result, passes, createdBy, faults>>

OwnerDelete(r) ==
    /\ store[r].exists
    /\ ~store[r].DeletionTimestamp
    /\ store' = [store EXCEPT ![r] = Collect([@ EXCEPT !.DeletionTimestamp = TRUE])]
    /\ UNCHANGED <<aux, lastSynced, binding, pool, subs, pc, user, fetched,
                   existingUser, calls, result, passes, createdBy, changes,
                   faults>>

(***************************************************************************)
(* Reconcile: fetching the object.                                         *)
(***************************************************************************)
Begin(r) ==
    /\ pc[r] = "idle"
    /\ Total(passes) < MaxPasses
    /\ passes' = [passes EXCEPT ![r] = @ + 1]
    /\ calls' = [calls EXCEPT ![r] = <<>>]
    /\ existingUser' = [existingUser EXCEPT ![r] = NilUser]

\* ReconcileClusterError returning the error with the requeue hint of a sync failure
ReconcileClusterErrorRequeues(r) ==
    /\ Begin(r)
    /\ Inject(TRUE)
    /\ Return(r, Failure("failed to get cluster", "Transient", RequeueMinutes))
    /\ UNCHANGED <<aux, lastSynced, binding, pool, subs, store, user, fetched,
                   createdBy, changes>>

\* r.Manager.GetCluster fails
ReconcileClusterError(r) ==
    /\ Begin(r)
    /\ Inject(TRUE)
    /\ Return(r, Failure("failed to get cluster", "Transient", 0))
    /\ UNCHANGED <<aux, lastSynced, binding, pool, subs, store, user, fetched,
                   createdBy, changes>>

\* clusterClient.Get fails with an error other than not-found
ReconcileGetError(r) ==
    /\ Begin(r)
    /\ Inject(TRUE)
    /\ Return(r, Failure("Get", "Transient", 0))
    /\ UNCHANGED <<aux, lastSynced, binding, pool, subs, store, user, fetched,
                   createdBy, changes>>

\* ReconcileNotFound returning the not-found error instead of swallowing it
ReconcileNotFoundAsError(r) ==
    /\ Begin(r)
    /\ ~store[r].exists
    /\ Return(r, Failure("Get", "NotFound", 0))
    /\ UNCHANGED <<aux, lastSynced, binding, pool, subs, store, user, fetched,
                   createdBy, changes, faults>>

\* clusterClient.Get reports not-found
ReconcileNotFound(r) ==
    /\ Begin(r)
    /\ ~store[r].exists
    /\ Return(r, Success)
    /\ UNCHANGED <<aux, lastSynced, binding, pool, subs, store, user, fetched,
                   createdBy, changes, faults>>

\* clusterClient.Get succeeds; the pass branches on what it fetched
ReconcileFetch(r) ==
    /\ Begin(r)
    /\ store[r].exists
    /\ user' = [user EXCEPT ![r] = store[r]]
    /\ fetched' = [fetched EXCEPT ![r] = store[r]]
    /\ pc' = [pc EXCEPT ![r] = firstStep(binding, store[r])]
    /\ UNCHANGED <<aux, lastSynced, binding, pool, subs, store, result,
                   createdBy, changes, faults>>

(***************************************************************************)
(* Writes to the object store.  A write fails when a failure is injected   *)
(* or when the object is gone.                                             *)
(***************************************************************************)
WriteError(r, fail) ==
    IF fail THEN "Transient" ELSE IF ~store[r].exists THEN "NotFound" ELSE ""

\* clusterClient.Update(ctx, &user) at position pc[r] of a pass: on success
\* the pass goes to `next` ("idle": it returns success), on failure it returns
\* the error.
DoUpdate(r, u, next) ==
    \E fail \in BOOLEAN :
       LET e == WriteError(r, fail) IN
       /\ Inject(fail)
       /\ user' = [user EXCEPT ![r] = u]
       /\ calls' = [calls EXCEPT ![r] = Append(@, Call("Update", "", NilUser, e, NilUser, {}))]
       /\ IF e # ""
          THEN /\ store' = store
               /\ Return(r, Failure("Update", e, 0))
          ELSE /\ store' = [store EXCEPT ![r] = StoreUpdate(@, u)]
               /\ IF next = "idle" THEN Return(r, Success)
                  ELSE /\ pc' = [pc EXCEPT ![r] = next]
                       /\ result' = result

(***************************************************************************)
(* Reconcile: the deletion path.                                           *)
(***************************************************************************)
\* deleteUserFromUserPool: GetUser
CleanupGet(r) ==
    /\ pc[r] = "cleanup_get"
    /\ LET id == cleanupIdentifier(r, user[r].Status.Sub) IN
       \E f \in FaultsOf(binding) :
          LET rep == GetUser(binding, pool, id, subs, f) IN
          /\ f # "ok" => rep # GetUser(binding, pool, id, subs, "ok")
          /\ Inject(f # "ok")
          /\ calls' = [calls EXCEPT ![r] = Append(@, Call("GetUser", id, NilUser, rep.err, rep.user, {}))]
          /\ pc' = [pc EXCEPT ![r] = IF rep.err # "" THEN "remove_finalizer"
                                     ELSE "cleanup_delete"]
    /\ UNCHANGED <<aux, lastSynced, binding, pool, subs, store, user, fetched,
                   existingUser, result, passes, createdBy, changes>>

\* deleteUserFromUserPool: DeleteUser; its error is logged and dropped
CleanupDelete(r) ==
    /\ pc[r] = "cleanup_delete"
    /\ LET id == cleanupIdentifier(r, user[r].Status.Sub) IN
       \E f \in FaultsOf(binding) :
          LET rep == DeleteUser(binding, pool, id, subs, f) IN
          /\ f # "ok" => rep # DeleteUser(binding, pool, id, subs, "ok")
          /\ Inject(f # "ok")
          /\ pool' = rep.pool
          /\ calls' = [calls EXCEPT ![r] = Append(@, Call("DeleteUser", id, NilUser, rep.err, NilUser, {}))]
          /\ pc' = [pc EXCEPT ![r] = "remove_finalizer"]
    /\ UNCHANGED <<aux, lastSynced, binding, subs, store, user, fetched,
                   existingUser, result, passes, createdBy, changes>>

\* RemoveFinalizer falling through to the stamping and the two writes
RemoveFinalizerFallsThrough(r) ==
    /\ pc[r] = "remove_finalizer"
    /\ DoUpdate(r, [user[r] EXCEPT !.Finalizers = removeFinalizer(@, finalizerName)],
                "update")
    /\ UNCHANGED <<aux, lastSynced, binding, pool, subs, fetched, existingUser,
                   passes, createdBy, changes>>

\* the finalizer is removed and the object written; the pass ends
RemoveFinalizer(r) ==
    /\ pc[r] = "remove_finalizer"
    /\ DoUpdate(r, [user[r] EXCEPT !.Finalizers = removeFinalizer(@, finalizerName)],
                "idle")
    /\ UNCHANGED <<aux, lastSynced, binding, pool, subs, fetched, existingUser,
                   passes, createdBy, changes>>

(***************************************************************************)
(* Reconcile: the create/update path.                                      *)
(***************************************************************************)
\* the finalizer is appended and the object written
AddFinalizer(r) ==
    /\ pc[r] = "add_finalizer"
    /\ DoUpdate(r, [user[r] EXCEPT !.Finalizers = addFinalizer(@, finalizerName)],
                afterFinalizer(binding))
    /\ UNCHANGED <<aux, lastSynced, binding, pool, subs, fetched, existingUser,
                   passes, createdBy, changes>>

\* syncUserWithUserPool: GetUser
SyncGet(r) ==
    /\ pc[r] = "sync_get"
    /\ LET id == syncIdentifier(user[r]) IN
       \E f \in FaultsOf(binding) :
          LET rep == GetUser(binding, pool, id, subs, f) IN
          /\ f # "ok" => rep # GetUser(binding, pool, id, subs, "ok")
          /\ Inject(f # "ok")
          /\ calls' = [calls EXCEPT ![r] = Append(@, Call("GetUser", id, NilUser, rep.err, rep.user, {}))]
          /\ IF rep.err # ""
             THEN /\ pc' = [pc EXCEPT ![r] = "sync_create"]
                  /\ UNCHANGED <<user, existingUser>>
             ELSE /\ existingUser' = [existingUser EXCEPT ![r] = rep.user]
                  /\ IF needsUpdate(rep.user, poolUserOf(r, user[r]))
                     THEN /\ pc' = [pc EXCEPT ![r] = "sync_update"]
                          /\ user' = user
                     ELSE /\ pc' = [pc EXCEPT ![r] = "update"]
                          /\ user' = [user EXCEPT ![r] =
                                         statusAfterFound(@, rep.user, passes[r])]
    /\ UNCHANGED <<aux, lastSynced, binding, pool, subs, store, fetched, result,
                   passes, createdBy, changes>>

\* syncUserWithUserPool: CreateUser
SyncCreate(r) ==
    /\ pc[r] = "sync_create"
    /\ LET poolUser == poolUserOf(r, user[r]) IN
       \E f \in FaultsOf(binding) :
          LET rep == CreateUser(binding, pool, poolUser, subs, f) IN
          /\ f # "ok" => rep # CreateUser(binding, pool, poolUser, subs, "ok")
          /\ Inject(f # "ok")
          /\ pool' = rep.pool
          /\ subs' = rep.subs
          /\ createdBy' = [q \in Names |->
                              IF q = r
                              THEN createdBy[q] \cup {a.Username : a \in rep.pool \ pool}
                              ELSE createdBy[q] \ {a.Username : a \in rep.pool \ pool}]
          /\ calls' = [calls EXCEPT ![r] = Append(@, Call("CreateUser", "", poolUser, rep.err, rep.user,
                                                   rep.pool \ pool))]
          /\ IF rep.err # ""
             THEN /\ Return(r, syncFailure("failed to create user in user pool",
                                           rep.err))
                  /\ user' = user
             ELSE /\ pc' = [pc EXCEPT ![r] = "update"]
                  /\ user' = [user EXCEPT ![r] = statusAfterCreate(@, rep.user, passes[r])]
                  /\ result' = result
    /\ UNCHANGED <<aux, lastSynced, binding, store, fetched, existingUser,
                   passes, changes>>

\* syncUserWithUserPool: UpdateUser
SyncUpdate(r) ==
    /\ pc[r] = "sync_update"
    /\ LET poolUser == poolUserOf(r, user[r]) IN
       \E f \in FaultsOf(binding) :
          LET rep == UpdateUser(binding, pool, poolUser, subs, f) IN
          /\ f # "ok" => rep # UpdateUser(binding, pool, poolUser, subs, "ok")
          /\ Inject(f # "ok")
          /\ pool' = rep.pool
          /\ calls' = [calls EXCEPT ![r] = Append(@, Call("UpdateUser", "", poolUser, rep.err, NilUser, {}))]
          /\ IF rep.err # ""
             THEN /\ Return(r, syncFailure("failed to update user in user pool",
                                           rep.err))
                  /\ user' = user
             ELSE /\ pc' = [pc EXCEPT ![r] = "update"]
                  /\ user' = [user EXCEPT ![r] =
                                 statusAfterFound(@, existingUser[r], passes[r])]
                  /\ result' = result
    /\ UNCHANGED <<aux, lastSynced, binding, subs, store, fetched, existingUser,
                   passes, createdBy, changes>>

\* the lastReconciledAt annotation is stamped and the object written
UpdateResource(r) ==
    /\ pc[r] = "update"
    /\ DoUpdate(r, stampAnnotation(user[r], passes[r]), "status")
    /\ UNCHANGED <<aux, lastSynced, binding, pool, subs, fetched, existingUser,
                   passes, createdBy, changes>>

\* a pass that ends without writing the status
UpdateStatusSkipped(r) ==
    /\ pc[r] = "status"
    /\ Return(r, Success)
    /\ calls' = [calls EXCEPT ![r] =
                    Append(@, Call("StatusUpdate", "", NilUser, "", NilUser, {}))]
    /\ UNCHANGED <<aux, lastSynced, binding, pool, subs, store, user, fetched,
                   existingUser, passes, createdBy, changes, faults>>

\* clusterClient.Status().Update(ctx, &user); the pass ends
UpdateStatus(r) ==
    /\ pc[r] = "status"
    /\ \E fail \in BOOLEAN :
          LET e == WriteError(r, fail) IN
          /\ Inject(fail)
          /\ calls' = [calls EXCEPT ![r] = Append(@, Call("StatusUpdate", "", NilUser, e, NilUser, {}))]
          /\ IF e # ""
             THEN /\ store' = store
                  /\ Return(r, Failure("StatusUpdate", e, 0))
                  /\ lastSynced' = lastSynced
             ELSE /\ store' = [store EXCEPT ![r] = StoreStatusUpdate(@, user[r])]
                  /\ Return(r, Success)
                  /\ lastSynced' = [lastSynced EXCEPT ![r] =
                                       [at |-> passes[r], Spec |-> fetched[r].Spec,
                                        pool |-> pool]]
    /\ UNCHANGED <<aux, binding, pool, subs, user, fetched, existingUser, passes,
                   createdBy, changes>>

Next ==
    \E r \in Names :
       \/ OwnerUpdateSpec(r)
       \/ OwnerDelete(r)
       \/ ReconcileClusterError(r)
       \/ ReconcileGetError(r)
       \/ ReconcileNotFound(r)
       \/ ReconcileFetch(r)
       \/ CleanupGet(r)
       \/ CleanupDelete(r)
       \/ RemoveFinalizer(r)
       \/ AddFinalizer(r)
       \/ SyncGet(r)
       \/ SyncCreate(r)
       \/ SyncUpdate(r)
       \/ UpdateResource(r)
       \/ UpdateStatus(r)

Spec == Init /\ [][Next]_vars

(***************************************************************************)
(* Reconcile under at-least-once delivery of triggers.  The platform keeps *)
(* delivering triggers for a resource and requeues a pass that returned an *)
(* error, and a pass that has begun runs to its end: the steps of the      *)
(* passes of a resource are weakly fair.  The number of passes is not      *)
(* bounded; the clock stops at MaxTime (no step of Reconcile depends on    *)
(* the value of a time).  Failures of the cluster lookup, of Get, of the   *)
(* store writes and of the directory calls of the create/update path are   *)
(* counted and end after MaxFaults; the directory calls of the deletion    *)
(* path may fail without end.  The owner changes a spec MaxSpecChanges     *)
(* times at most.                                                          *)
(***************************************************************************)
\* the resources that receive triggers
LiveNames == {"alice"}

LiveBegin(r) ==
    /\ pc[r] = "idle"
    /\ passes' = [passes EXCEPT ![r] = IF @ < MaxTime THEN @ + 1 ELSE @]
    /\ calls' = [calls EXCEPT ![r] = <<>>]
    /\ existingUser' = [existingUser EXCEPT ![r] = NilUser]

LiveClusterError(r) ==
    /\ LiveBegin(r)
    /\ Inject(TRUE)
    /\ Return(r, Failure("failed to get cluster", "Transient", 0))
    /\ UNCHANGED <<aux, lastSynced, binding, pool, subs, store, user, fetched,
                   createdBy, changes>>

LiveGetError(r) ==
    /\ LiveBegin(r)
    /\ Inject(TRUE)
    /\ Return(r, Failure("Get", "Transient", 0))
    /\ UNCHANGED <<aux, lastSynced, binding, pool, subs, store, user, fetched,
                   createdBy, changes>>

LiveNotFound(r) ==
    /\ LiveBegin(r)
    /\ ~store[r].exists
    /\ Return(r, Success)
    /\ UNCHANGED <<aux, lastSynced, binding, pool, subs, store, user, fetched,
                   createdBy, changes, faults>>

LiveFetch(r) ==
    /\ LiveBegin(r)
    /\ store[r].exists
    /\ user' = [user EXCEPT ![r] = store[r]]
    /\ fetched' = [fetched EXCEPT ![r] = store[r]]
    /\ pc' = [pc EXCEPT ![r] = firstStep(binding, store[r])]
    /\ UNCHANGED <<aux, lastSynced, binding, pool, subs, store, result,
                   createdBy, changes, faults>>

\* LiveCleanupGet that ends the pass with an error when the directory fails
LiveCleanupGetBlocking(r) ==
    /\ pc[r] = "cleanup_get"
    /\ LET id == cleanupIdentifier(r, user[r].Status.Sub) IN
       \E f \in FaultsOf(binding) :
          LET rep == GetUser(binding, pool, id, subs, f) IN
          /\ f # "ok" => rep # GetUser(binding, pool, id, subs, "ok")
          /\ calls' = [calls EXCEPT ![r] =
                          Append(@, Call("GetUser", id, NilUser, rep.err, rep.user, {}))]
          /\ IF rep.err = "Transient"
             THEN Return(r, Failure("failed to delete user from user pool",
                                    rep.err, RequeueMinutes))
             ELSE /\ pc' = [pc EXCEPT ![r] = IF rep.err # "" THEN "remove_finalizer"
                                             ELSE "cleanup_delete"]
                  /\ result' = result
    /\ UNCHANGED <<aux, lastSynced, binding, pool, subs, store, user, fetched,
                   existingUser, passes, createdBy, changes, faults>>

\* deleteUserFromUserPool: GetUser, failing any number of times
LiveCleanupGet(r) ==
    /\ pc[r] = "cleanup_get"
    /\ LET id == cleanupIdentifier(r, user[r].Status.Sub) IN
       \E f \in FaultsOf(binding) :
          LET rep == GetUser(binding, pool, id, subs, f) IN
          /\ f # "ok" => rep # GetUser(binding, pool, id, subs, "ok")
          /\ calls' = [calls EXCEPT ![r] =
                          Append(@, Call("GetUser", id, NilUser, rep.err, rep.user, {}))]
          /\ pc' = [pc EXCEPT ![r] = IF rep.err # "" THEN "remove_finalizer"
                                     ELSE "cleanup_delete"]
    /\ UNCHANGED <<aux, lastSynced, binding, pool, subs, store, user, fetched,
                   existingUser, result, passes, createdBy, changes, faults>>

\* deleteUserFromUserPool: DeleteUser, failing any number of times
LiveCleanupDelete(r) ==
    /\ pc[r] = "cleanup_delete"
    /\ LET id == cleanupIdentifier(r, user[r].Status.Sub) IN
       \E f \in FaultsOf(binding) :
          LET rep == DeleteUser(binding, pool, id, subs, f) IN
          /\ f # "ok" => rep # DeleteUser(binding, pool, id, subs, "ok")
          /\ pool' = rep.pool
          /\ calls' = [calls EXCEPT ![r] =
                          Append(@, Call("DeleteUser", id, NilUser, rep.err, NilUser, {}))]
          /\ pc' = [pc EXCEPT ![r] = "remove_finalizer"]
    /\ UNCHANGED <<aux, lastSynced, binding, subs, store, user, fetched,
                   existingUser, result, passes, createdBy, changes, faults>>

\* a step of a pass of r: its beginning on a trigger, or its next call
LivePass(r) ==
    \/ LiveClusterError(r)
    \/ LiveGetError(r)
    \/ LiveNotFound(r)
    \/ LiveFetch(r)
    \/ LiveCleanupGet(r)
    \/ LiveCleanupDelete(r)
    \/ RemoveFinalizer(r)
    \/ AddFinalizer(r)
    \/ SyncGet(r)
    \/ SyncCreate(r)
    \/ SyncUpdate(r)
    \/ UpdateResource(r)
    \/ UpdateStatus(r)

LiveNext ==
    \E r \in LiveNames :
       \/ OwnerUpdateSpec(r)
       \/ OwnerDelete(r)
       \/ LivePass(r)

LiveSpec ==
    /\ Init
    /\ [][LiveNext]_vars
    /\ \A r \in LiveNames : WF_vars(LivePass(r))

(***************************************************************************)
(* Passes of different resources at the same time.  After any run of the   *)
(* reconciler (the setup), with no pass in flight and different e-mails in *)
(* the two specs, the state is recorded as `base`, and one pass per        *)
(* resource is run, the passes interleaving at their calls, with no        *)
(* failure injected and no step of an owner.                               *)
(*                                                                         *)
(* A call to the object store or to Cognito is served by a remote service, *)
(* one request at a time.  A method of MockClient runs in the goroutine of *)
(* the pass and reads and writes the map m.users without a lock: the pass  *)
(* is inside the method from MockEnter to MockLeave, the step of the pass  *)
(* in between is the access to the map.  Two passes inside a method at the *)
(* same time, one of them writing the map, are a data race: the runtime    *)
(* may stop the process with "fatal error: concurrent map writes" (or      *)
(* "concurrent map read and map write"), the insertion of an entry may be  *)
(* lost, or the accesses may happen to take effect one after the other.    *)
(***************************************************************************)
\* Reconcile -> syncUserWithUserPool running with no other pass in flight
\* and no failure, on the in-memory object u at time now
syncUserWithUserPool(b, r, u, pl, n, now) ==
    IF b = "none" THEN [user |-> u, pool |-> pl, subs |-> n, err |-> ""]
    ELSE LET poolUser == poolUserOf(r, u)
             got == GetUser(b, pl, syncIdentifier(u), n, "ok")
             created == CreateUser(b, pl, poolUser, n, "ok")
             updated == UpdateUser(b, pl, poolUser, n, "ok")
         IN  IF got.err # ""
             THEN IF created.err # ""
                  THEN [user |-> u, pool |-> created.pool, subs |-> created.subs,
                        err |-> created.err]
                  ELSE [user |-> statusAfterCreate(u, created.user, now),
                        pool |-> created.pool, subs |-> created.subs, err |-> ""]
             ELSE IF needsUpdate(got.user, poolUser)
                  THEN IF updated.err # ""
                       THEN [user |-> u, pool |-> updated.pool, subs |-> n,
                             err |-> updated.err]
                       ELSE [user |-> statusAfterFound(u, got.user, now),
                             pool |-> updated.pool, subs |-> n, err |-> ""]
                  ELSE [user |-> statusAfterFound(u, got.user, now),
                        pool |-> pl, subs |-> n, err |-> ""]

\* Reconcile for resource r running from beginning to end on the world w,
\* with no other pass in flight and no failure
Reconcile(b, r, w) ==
    LET now == w.passes[r] + 1
        stored == w.store[r]
        After(st, pl, n) ==
            World([w.store EXCEPT ![r] = st], pl, n, [w.passes EXCEPT ![r] = now])
    IN  IF ~stored.exists THEN After(stored, w.pool, w.subs)
        ELSE IF stored.DeletionTimestamp
        THEN LET id == cleanupIdentifier(r, stored.Status.Sub)
                 found == b # "none" /\ GetUser(b, w.pool, id, w.subs, "ok").err = ""
                 pl == IF found THEN DeleteUser(b, w.pool, id, w.subs, "ok").pool
                       ELSE w.pool
             IN  After(StoreUpdate(stored,
                                   [stored EXCEPT !.Finalizers =
                                                     removeFinalizer(@, finalizerName)]),
                       pl, w.subs)
        ELSE LET has == containsFinalizer(stored.Finalizers, finalizerName)
                 u1 == IF has THEN stored
                       ELSE [stored EXCEPT !.Finalizers = addFinalizer(@, finalizerName)]
                 st1 == IF has THEN stored ELSE StoreUpdate(stored, u1)
                 sync == syncUserWithUserPool(b, r, u1, w.pool, w.subs, now)
                 u2 == stampAnnotation(sync.user, now)
             IN  IF sync.err # "" THEN After(st1, sync.pool, sync.subs)
                 ELSE After(StoreStatusUpdate(StoreUpdate(st1, u2), u2),
                            sync.pool, sync.subs)

\* the positions of a pass at which its next step is a Directory Client call
DirectoryPositions ==
    {"cleanup_get", "cleanup_delete", "sync_get", "sync_create", "sync_update"}

ConcurrentInit ==
    /\ ReconcilerInit
    /\ finalizerRun = NoFinalizerRun
    /\ clientRun = NoClientRun
    /\ listRun = NoListRun
    /\ concurrentRun = [NoConcurrentRun EXCEPT !.phase = "setup"]
    /\ findRun = NoFindRun

\* the setup: any step of the reconciler, of an owner or of the platform
ConcurrentSetup ==
    /\ concurrentRun.phase = "setup"
    /\ Next

\* the setup is over; the state is recorded
ConcurrentStart ==
    /\ concurrentRun.phase = "setup"
    /\ \A r \in Names : pc[r] = "idle"
    /\ \A r, q \in Names : r # q => store[r].Spec.Email # store[q].Spec.Email
    /\ concurrentRun' = [concurrentRun EXCEPT
                            !.phase = "run",
                            !.base = World(store, pool, subs, passes)]
    /\ UNCHANGED <<reconcilerVars, finalizerRun, clientRun, listRun, findRun>>

\* the process runs and the pass of r has not begun
MayBegin(r) ==
    /\ concurrentRun.phase = "run"
    /\ ~concurrentRun.crashed
    /\ r \notin concurrentRun.started
    /\ pc[r] = "idle"

\* the pass of r begins; clusterClient.Get reports not-found
ConcurrentNotFound(r) ==
    /\ MayBegin(r)
    /\ ~store[r].exists
    /\ passes' = [passes EXCEPT ![r] = @ + 1]
    /\ calls' = [calls EXCEPT ![r] = <<>>]
    /\ existingUser' = [existingUser EXCEPT ![r] = NilUser]
    /\ Return(r, Success)
    /\ concurrentRun' = [concurrentRun EXCEPT !.started = @ \cup {r}]
    /\ UNCHANGED <<binding, pool, subs, store, user, fetched, createdBy, changes,
                   faults, lastSynced, finalizerRun, clientRun, listRun,
                   findRun>>

\* the pass of r begins; clusterClient.Get succeeds
ConcurrentFetch(r) ==
    /\ MayBegin(r)
    /\ store[r].exists
    /\ passes' = [passes EXCEPT ![r] = @ + 1]
    /\ calls' = [calls EXCEPT ![r] = <<>>]
    /\ existingUser' = [existingUser EXCEPT ![r] = NilUser]
    /\ user' = [user EXCEPT ![r] = store[r]]
    /\ fetched' = [fetched EXCEPT ![r] = store[r]]
    /\ pc' = [pc EXCEPT ![r] = firstStep(binding, store[r])]
    /\ concurrentRun' = [concurrentRun EXCEPT !.started = @ \cup {r}]
    /\ UNCHANGED <<binding, pool, subs, store, result, createdBy, changes,
                   faults, lastSynced, finalizerRun, clientRun, listRun,
                   findRun>>

\* the pass of r is inside a method of MockClient
InMethod(r) == concurrentRun.inside[r] >= 0

\* the method the pass of r is inside has accessed the map
Accessed(r) == InMethod(r) /\ Len(calls[r]) > concurrentRun.inside[r]

\* the next step of the pass of r may be taken: a call to MockClient from
\* inside the method, any other step from outside
MayStep(r) ==
    /\ concurrentRun.phase = "run"
    /\ ~concurrentRun.crashed
    /\ IF binding = "mock" /\ pc[r] \in DirectoryPositions
       THEN InMethod(r) /\ ~Accessed(r)
       ELSE ~InMethod(r)

\* the next call of a pass of r, with no failure injected
ConcurrentStep(r) ==
    /\ MayStep(r)
    /\ faults' = faults
    /\ \/ CleanupGet(r)
       \/ CleanupDelete(r)
       \/ RemoveFinalizer(r)
       \/ AddFinalizer(r)
       \/ SyncGet(r)
       \/ SyncCreate(r)
       \/ SyncUpdate(r)
       \/ UpdateResource(r)
       \/ UpdateStatus(r)

\* the pass of r enters the method of MockClient it calls next
MockEnter(r) ==
    /\ concurrentRun.phase = "run"
    /\ ~concurrentRun.crashed
    /\ binding = "mock"
    /\ pc[r] \in DirectoryPositions
    /\ ~InMethod(r)
    /\ concurrentRun' = [concurrentRun EXCEPT !.inside[r] = Len(calls[r])]
    /\ UNCHANGED <<reconcilerVars, finalizerRun, clientRun, listRun, findRun>>

\* the method returns to the pass of r
MockLeave(r) ==
    /\ concurrentRun.phase = "run"
    /\ ~concurrentRun.crashed
    /\ Accessed(r)
    /\ concurrentRun' = [concurrentRun EXCEPT !.inside[r] = -1]
    /\ UNCHANGED <<reconcilerVars, finalizerRun, clientRun, listRun, findRun>>

\* the method the pass of r is inside writes the map m.users: CreateUser of
\* an absent user, UpdateUser and DeleteUser of a present one
WritesMap(r) ==
    IF Accessed(r)
    THEN /\ calls[r][Len(calls[r])].op \in {"CreateUser", "UpdateUser", "DeleteUser"}
         /\ calls[r][Len(calls[r])].err = ""
         /\ calls[r][Len(calls[r])].op = "CreateUser" =>
               calls[r][Len(calls[r])].made # {}
    ELSE \/ pc[r] = "sync_create" /\ Lookup(pool, r) = {}
         \/ pc[r] = "sync_update" /\ Lookup(pool, r) # {}
         \/ /\ pc[r] = "cleanup_delete"
            /\ Lookup(pool, cleanupIdentifier(r, user[r].Status.Sub)) # {}

\* the passes of r and q are inside MockClient at the same time and r writes
DataRace(r, q) == r # q /\ InMethod(r) /\ InMethod(q) /\ WritesMap(r)

\* the runtime detects the race and stops the process
MockRaceFatal ==
    /\ concurrentRun.phase = "run"
    /\ ~concurrentRun.crashed
    /\ \E r, q \in Names : DataRace(r, q)
    /\ concurrentRun' = [concurrentRun EXCEPT !.crashed = TRUE]
    /\ UNCHANGED <<reconcilerVars, finalizerRun, clientRun, listRun, findRun>>

\* the race goes undetected and the entry CreateUser has inserted for r is lost
MockRaceLosesEntry ==
    /\ concurrentRun.phase = "run"
    /\ ~concurrentRun.crashed
    /\ \E r, q \in Names :
          /\ DataRace(r, q)
          /\ Accessed(r)
          /\ calls[r][Len(calls[r])].op = "CreateUser"
          /\ calls[r][Len(calls[r])].made \cap pool # {}
          /\ pool' = pool \ calls[r][Len(calls[r])].made
    /\ UNCHANGED <<aux, lastSynced, binding, subs, store, pc, user, fetched,
                   existingUser, calls, result, passes, createdBy, changes,
                   faults>>

ConcurrentNext ==
    \/ ConcurrentSetup
    \/ ConcurrentStart
    \/ MockRaceFatal
    \/ MockRaceLosesEntry
    \/ \E r \in Names :
          \/ ConcurrentNotFound(r)
          \/ ConcurrentFetch(r)
          \/ ConcurrentStep(r)
          \/ MockEnter(r)
          \/ MockLeave(r)

ConcurrentSpec == ConcurrentInit /\ [][ConcurrentNext]_vars

(***************************************************************************)
(* Reconcile on a resource that carries finalizers of other controllers.   *)
(* The resource starts with any list of foreign finalizers; the other      *)
(* controllers add a finalizer of theirs while the resource is not being   *)
(* deleted and remove one at any time, each with a write of its own to the *)
(* object store.  The resource is removed by the platform when its last    *)
(* finalizer is gone.                                                      *)
(***************************************************************************)
\* the finalizers of the other controllers
ForeignMarkers == Markers \ {finalizerName}

\* the lists of foreign finalizers a resource starts with
ForeignLists ==
    {S \in FinalizerLists :
        /\ \A i \in 1..Len(S) : S[i] \in ForeignMarkers
        /\ \A i, j \in 1..Len(S) : i # j => S[i] # S[j]}

ForeignInit ==
    /\ binding \in Bindings
    /\ pool = {}
    /\ subs = 0
    /\ \E S \in ForeignLists :
          store = [r \in Names |->
                      [NewUser(IF r = "alice" THEN "a@x" ELSE "b@x", TRUE)
                          EXCEPT !.Finalizers = IF r \in LiveNames THEN S ELSE <<>>]]
    /\ pc = [r \in Names |-> "idle"]
    /\ user = [r \in Names |-> NewUser("", FALSE)]
    /\ fetched = [r \in Names |-> NewUser("", FALSE)]
    /\ existingUser = [r \in Names |-> NilUser]
    /\ calls = [r \in Names |-> <<>>]
    /\ result = [r \in Names |-> NoResult]
    /\ passes = [r \in Names |-> 0]
    /\ createdBy = [r \in Names |-> {}]
    /\ changes = 0
    /\ faults = 0
    /\ lastSynced = [r \in Names |-> NeverSynced]
    /\ finalizerRun = NoFinalizerRun
    /\ clientRun = NoClientRun
    /\ listRun = NoListRun
    /\ concurrentRun = NoConcurrentRun
    /\ findRun = NoFindRun

\* another controller puts its finalizer on the resource
ForeignHold(r) ==
    /\ store[r].exists
    /\ ~store[r].DeletionTimestamp
    /\ \E m \in ForeignMarkers :
          /\ ~containsFinalizer(store[r].Finalizers, m)
          /\ store' = [store EXCEPT ![r].Finalizers = Append(@, m)]
    /\ UNCHANGED <<aux, lastSynced, binding, pool, subs, pc, user, fetched,
                   existingUser, calls, result, passes, createdBy, changes,
                   faults>>

\* another controller takes its finalizer off the resource
ForeignRelease(r) ==
    /\ store[r].exists
    /\ \E m \in ForeignMarkers :
          /\ containsFinalizer(store[r].Finalizers, m)
          /\ store' = [store EXCEPT ![r] =
                          Collect([@ EXCEPT !.Finalizers =
                                               SelectSeq(@, LAMBDA f : f # m)])]
    /\ UNCHANGED <<aux, lastSynced, binding, pool, subs, pc, user, fetched,
                   existingUser, calls, result, passes, createdBy, changes,
                   faults>>

ForeignNext ==
    \E r \in LiveNames :
       \/ ForeignHold(r)
       \/ ForeignRelease(r)
       \/ OwnerUpdateSpec(r)
       \/ OwnerDelete(r)
       \/ ReconcileClusterError(r)
       \/ ReconcileGetError(r)
       \/ ReconcileNotFound(r)
       \/ ReconcileFetch(r)
       \/ CleanupGet(r)
       \/ CleanupDelete(r)
       \/ RemoveFinalizer(r)
       \/ AddFinalizer(r)
       \/ SyncGet(r)
       \/ SyncCreate(r)
       \/ SyncUpdate(r)
       \/ UpdateResource(r)
       \/ UpdateStatus(r)

ForeignSpec == ForeignInit /\ [][ForeignNext]_vars

(***************************************************************************)
(* The finalizer helpers on their own: containsFinalizer, the append of    *)
(* Reconcile and removeFinalizer are run on every finalizer list of at     *)
(* most MaxFinalizers entries with every marker.                           *)
(***************************************************************************)
FinalizerInit ==
    /\ ReconcilerInit
    /\ binding = "none"
    /\ \E S \in FinalizerLists, m \in Markers :
          finalizerRun = [step |-> "start", original |-> S, finalizers |-> S,
                          finalizer |-> m, result |-> <<>>, resultIsNil |-> TRUE]
    /\ clientRun = NoClientRun
    /\ listRun = NoListRun
    /\ concurrentRun = NoConcurrentRun
    /\ findRun = NoFindRun

\* finalizers = append(finalizers, finalizer)
RunAppend ==
    /\ finalizerRun.step = "start"
    /\ finalizerRun' = [finalizerRun EXCEPT
                           !.step = "added",
                           !.finalizers = addFinalizer(@, finalizerRun.finalizer)]
    /\ UNCHANGED <<reconcilerVars, clientRun, listRun, concurrentRun,
                   findRun>>

\* result = removeFinalizer(finalizers, finalizer), on the list as it was
\* drawn ("removed") or after the append ("added_removed")
RunRemove ==
    /\ finalizerRun.step \in {"start", "added"}
    /\ finalizerRun' = [finalizerRun EXCEPT
                           !.step = IF @ = "start" THEN "removed" ELSE "added_removed",
                           !.result = removeFinalizer(finalizerRun.finalizers,
                                                      finalizerRun.finalizer),
                           !.resultIsNil =
                               removeFinalizerReturnsNil(finalizerRun.finalizers,
                                                         finalizerRun.finalizer)]
    /\ UNCHANGED <<reconcilerVars, clientRun, listRun, concurrentRun,
                   findRun>>

FinalizerNext == RunAppend \/ RunRemove

FinalizerSpec == FinalizerInit /\ [][FinalizerNext]_vars

(***************************************************************************)
(* The Directory Client on its own: a caller other than Reconcile applies  *)
(* the four operations of the configured binding, with any arguments, to   *)
(* the pool; clientRun keeps the last call, the pool before it and what it *)
(* returned.  A run is MaxClientCalls calls from the empty pool.            *)
(***************************************************************************)
\* the identifiers passed to GetUser and DeleteUser: a local name, an
\* e-mail, a subject id, or nothing
ClientIds == Names \cup Emails \cup {SubIds[i] : i \in 1..MaxClientCalls}

\* the *userpool.User values passed to CreateUser and UpdateUser
ClientUsers ==
    [Username : ClientIds, Email : Emails, Enabled : BOOLEAN, Sub : {""}]

ClientInit ==
    /\ ReconcilerInit
    /\ binding # "none"
    /\ finalizerRun = NoFinalizerRun
    /\ clientRun = NoClientRun
    /\ listRun = NoListRun
    /\ concurrentRun = NoConcurrentRun
    /\ findRun = NoFindRun

\* the call op(id or u) with failure f has answered rep; `reported` keeps,
\* for every account of the pool that a CreateUser of the run created, the
\* subject id that CreateUser returned for it, `api` the requests the call
\* has sent to the Cognito API, `retry` whether the call repeats the call
\* before it, which had failed
ClientCall(op, id, u, f, rep) ==
    /\ clientRun.n < MaxClientCalls
    /\ clientRun' = [n |-> clientRun.n + 1, op |-> op, id |-> id, user |-> u,
                     fault |-> f, before |-> pool, err |-> rep.err,
                     out |-> rep.user,
                     reported |->
                         {e \in clientRun.reported : Lookup(rep.pool, e.Username) # {}}
                         \cup (IF op = "CreateUser"
                               THEN {[Username |-> a.Username, Sub |-> rep.user.Sub] :
                                        a \in rep.pool \ pool}
                               ELSE {}),
                     api |-> ApiCalls(binding, op, pool, id, u, subs, f),
                     retry |-> /\ clientRun.op = op
                               /\ clientRun.id = id
                               /\ clientRun.user = u
                               /\ clientRun.err # ""]
    /\ pool' = rep.pool
    /\ subs' = rep.subs
    /\ UNCHANGED <<binding, store, pc, user, fetched, existingUser, calls,
                   result, passes, createdBy, changes, faults, lastSynced,
                   finalizerRun, listRun, concurrentRun, findRun>>

ClientCreateUser ==
    \E u \in ClientUsers, f \in FaultsOf(binding) :
       LET rep == CreateUser(binding, pool, u, subs, f) IN
       /\ f # "ok" => rep # CreateUser(binding, pool, u, subs, "ok")
       /\ ClientCall("CreateUser", "", u, f, rep)

ClientGetUser ==
    \E id \in ClientIds, f \in FaultsOf(binding) :
       LET rep == GetUser(binding, pool, id, subs, f) IN
       /\ f # "ok" => rep # GetUser(binding, pool, id, subs, "ok")
       /\ ClientCall("GetUser", id, NilUser, f, rep)

ClientUpdateUser ==
    \E u \in ClientUsers, f \in FaultsOf(binding) :
       LET rep == UpdateUser(binding, pool, u, subs, f) IN
       /\ f # "ok" => rep # UpdateUser(binding, pool, u, subs, "ok")
       /\ ClientCall("UpdateUser", "", u, f, rep)

ClientDeleteUser ==
    \E id \in ClientIds, f \in FaultsOf(binding) :
       LET rep == DeleteUser(binding, pool, id, subs, f) IN
       /\ f # "ok" => rep # DeleteUser(binding, pool, id, subs, "ok")
       /\ ClientCall("DeleteUser", id, NilUser, f, rep)

ClientNext ==
    \/ ClientCreateUser
    \/ ClientGetUser
    \/ ClientUpdateUser
    \/ ClientDeleteUser

ClientSpec == ClientInit /\ [][ClientNext]_vars

(***************************************************************************)
(* AWSClient.ListUsers on its own, against a Cognito ListUsers API that    *)
(* serves a listing cut into pages: a request with a nil token gets the    *)
(* first page, a request with token k page k, and every page but the last  *)
(* comes with the token of the next one.  Request failAt (if any) fails.   *)
(***************************************************************************)
\* the types.UserType entries of a page: one without Username, one with sub
\* and email attributes, one without attributes
ListEntries ==
    { [hasUsername |-> FALSE, Username |-> "", Enabled |-> TRUE,
       Attributes |-> <<[Name |-> "email", Value |-> "n@x"]>>],
      [hasUsername |-> TRUE, Username |-> "a@x", Enabled |-> TRUE,
       Attributes |-> <<[Name |-> "sub", Value |-> "sub-1"],
                        [Name |-> "email", Value |-> "a@x"]>>],
      [hasUsername |-> TRUE, Username |-> "b@x", Enabled |-> FALSE,
       Attributes |-> <<>>] }

ListPages == UNION {[1..n -> ListEntries] : n \in 0..MaxPageSize}

Listings == UNION {[1..n -> ListPages] : n \in 0..MaxPages}

\* c.cognito.ListUsers(ctx, input) with input.PaginationToken = token
CognitoListUsers(pages, token) ==
    LET i == IF token = NilToken THEN 1 ELSE token IN
    IF i > Len(pages) THEN [Users |-> <<>>, PaginationToken |-> NilToken]
    ELSE [Users |-> pages[i],
          PaginationToken |-> IF i < Len(pages) THEN i + 1 ELSE NilToken]

\* the value of the first attribute named "email", "" if there is none
RECURSIVE emailOf(_, _)
emailOf(attributes, i) ==
    IF i > Len(attributes) THEN ""
    ELSE IF attributes[i].Name = "email" THEN attributes[i].Value
    ELSE emailOf(attributes, i + 1)

\* the users the loop over output.Users appends, from entry i on
RECURSIVE listPageUsers(_, _)
listPageUsers(cognitoUsers, i) ==
    IF i > Len(cognitoUsers) THEN <<>>
    ELSE IF ~cognitoUsers[i].hasUsername THEN listPageUsers(cognitoUsers, i + 1)
    ELSE <<[Username |-> cognitoUsers[i].Username,
            Email |-> emailOf(cognitoUsers[i].Attributes, 1),
            Enabled |-> cognitoUsers[i].Enabled, Sub |-> ""]>>
            \o listPageUsers(cognitoUsers, i + 1)

\* a loop that ends after the first page
loopEndsAfterFirstPage(nextToken) == TRUE

\* if nextToken == nil { break }
loopEnds(nextToken) == nextToken = NilToken

ListInit ==
    /\ ReconcilerInit
    /\ binding = "aws"
    /\ finalizerRun = NoFinalizerRun
    /\ clientRun = NoClientRun
    /\ \E pages \in Listings, k \in 0..MaxPages :
          listRun = [step |-> "loop", pages |-> pages, failAt |-> k,
                     nextToken |-> NilToken, requests |-> <<>>, users |-> <<>>,
                     usersIsNil |-> TRUE, err |-> ""]
    /\ concurrentRun = NoConcurrentRun
    /\ findRun = NoFindRun

\* the request of this iteration fails: return nil, err
ListUsersError ==
    /\ listRun.step = "loop"
    /\ listRun.failAt = Len(listRun.requests) + 1
    /\ listRun' = [listRun EXCEPT !.step = "returned",
                                  !.requests = Append(@, listRun.nextToken),
                                  !.users = <<>>,
                                  !.usersIsNil = TRUE,
                                  !.err = "failed to list users"]
    /\ UNCHANGED <<reconcilerVars, finalizerRun, clientRun, concurrentRun,
                   findRun>>

\* one iteration of the loop: request a page, append its users, go on with
\* the token returned or return users, nil
ListUsersPage ==
    /\ listRun.step = "loop"
    /\ listRun.failAt # Len(listRun.requests) + 1
    /\ LET output == CognitoListUsers(listRun.pages, listRun.nextToken)
           appended == listPageUsers(output.Users, 1)
       IN  listRun' = [listRun EXCEPT
                          !.step = IF loopEnds(output.PaginationToken)
                                   THEN "returned" ELSE "loop",
                          !.requests = Append(@, listRun.nextToken),
                          !.users = @ \o appended,
                          !.usersIsNil = @ /\ appended = <<>>,
                          !.nextToken = output.PaginationToken]
    /\ UNCHANGED <<reconcilerVars, finalizerRun, clientRun, concurrentRun,
                   findRun>>

ListNext == ListUsersError \/ ListUsersPage

ListSpec == ListInit /\ [][ListNext]_vars

(***************************************************************************)
(* findUserPoolIDByName on its own, against a Cognito ListUserPools API    *)
(* that serves the pools cut into pages: a request with a nil token gets   *)
(* the first page, a request with token k page k, and every page but the   *)
(* last comes with the token of the next one.  Request failAt (if any)     *)
(* fails.                                                                  *)
(***************************************************************************)
\* the names a pool is asked for by, and the names the pools have
PoolNames == {"users", "Users"}

\* the types.UserPoolDescriptionType entries of a page
PoolEntries ==
    { [hasName |-> TRUE, Name |-> "users", hasId |-> TRUE, Id |-> "id-1"],
      [hasName |-> TRUE, Name |-> "USERS", hasId |-> TRUE, Id |-> "id-2"],
      [hasName |-> TRUE, Name |-> "users", hasId |-> FALSE, Id |-> ""],
      [hasName |-> FALSE, Name |-> "", hasId |-> TRUE, Id |-> "id-3"],
      [hasName |-> TRUE, Name |-> "other", hasId |-> TRUE, Id |-> "id-4"] }

PoolPages == UNION {[1..n -> PoolEntries] : n \in 0..MaxPageSize}

PoolListings == UNION {[1..n -> PoolPages] : n \in 0..MaxPages}

\* the simple case folding of the names in use
Fold(s) == IF s \in {"users", "Users", "USERS"} THEN "users" ELSE s

\* strings.EqualFold compared without folding
EqualFoldExact(s, t) == s = t

\* strings.EqualFold
EqualFold(s, t) == Fold(s) = Fold(t)

\* cognito.ListUserPools(ctx, input) with input.NextToken = token
CognitoListUserPools(pages, token) ==
    LET i == IF token = NilToken THEN 1 ELSE token IN
    IF i > Len(pages) THEN [UserPools |-> <<>>, NextToken |-> NilToken]
    ELSE [UserPools |-> pages[i],
          NextToken |-> IF i < Len(pages) THEN i + 1 ELSE NilToken]

\* the loop over output.UserPools from entry i on: the index of the entry it
\* returns the id of, 0 if it runs to the end
RECURSIVE scanUserPools(_, _, _)
scanUserPools(userPools, userPoolName, i) ==
    IF i > Len(userPools) THEN 0
    ELSE IF /\ userPools[i].hasName
            /\ EqualFold(userPools[i].Name, userPoolName)
            /\ userPools[i].hasId
         THEN i
         ELSE scanUserPools(userPools, userPoolName, i + 1)

FindInit ==
    /\ ReconcilerInit
    /\ binding = "aws"
    /\ finalizerRun = NoFinalizerRun
    /\ clientRun = NoClientRun
    /\ listRun = NoListRun
    /\ concurrentRun = NoConcurrentRun
    /\ \E pages \in PoolListings, k \in 0..MaxPages, name \in PoolNames :
          findRun = [step |-> "loop", userPoolName |-> name, pages |-> pages,
                     failAt |-> k, nextToken |-> NilToken, requests |-> <<>>,
                     id |-> "", err |-> ""]

\* the request of this iteration fails: return "", err
FindUserPoolError ==
    /\ findRun.step = "loop"
    /\ findRun.failAt = Len(findRun.requests) + 1
    /\ findRun' = [findRun EXCEPT !.step = "returned",
                                  !.requests = Append(@, findRun.nextToken),
                                  !.id = "",
                                  !.err = "failed to list user pools"]
    /\ UNCHANGED <<reconcilerVars, finalizerRun, clientRun, listRun,
                   concurrentRun>>

\* one iteration of the loop: request a page and scan it; return the id
\* found, go on with the token returned, or return "", not found
FindUserPoolPage ==
    /\ findRun.step = "loop"
    /\ findRun.failAt # Len(findRun.requests) + 1
    /\ LET output == CognitoListUserPools(findRun.pages, findRun.nextToken)
           hit == scanUserPools(output.UserPools, findRun.userPoolName, 1)
       IN  findRun' =
              IF hit # 0
              THEN [findRun EXCEPT !.step = "returned",
                                   !.requests = Append(@, findRun.nextToken),
                                   !.id = output.UserPools[hit].Id]
              ELSE IF output.NextToken = NilToken
              THEN [findRun EXCEPT !.step = "returned",
                                   !.requests = Append(@, findRun.nextToken),
                                   !.id = "",
                                   !.err = "user pool not found"]
              ELSE [findRun EXCEPT !.requests = Append(@, findRun.nextToken),
                                   !.nextToken = output.NextToken]
    /\ UNCHANGED <<reconcilerVars, finalizerRun, clientRun, listRun,
                   concurrentRun>>

FindNext == FindUserPoolError \/ FindUserPoolPage

FindSpec == FindInit /\ [][FindNext]_vars

(***************************************************************************)
(* Vocabulary of the properties.                                           *)
(***************************************************************************)
DirectoryOps == {"GetUser", "CreateUser", "UpdateUser", "DeleteUser"}

\* positions in calls[r] of the calls of operation op
CallsOf(r, op) == {i \in 1..Len(calls[r]) : calls[r][i].op = op}

LastCall(r) == calls[r][Len(calls[r])]

\* the current (or last) pass of r fetched the object: every pass that
\* fetched makes a call at once, and calls[r] is emptied when a pass begins
Fetched(r) == pc[r] # "idle" \/ calls[r] # <<>>

\* the pass of r ran (or runs) the create/update path
SyncPass(r) == Fetched(r) /\ ~fetched[r].DeletionTimestamp

\* the pass of r ran (or runs) the deletion path
DeletionPass(r) == Fetched(r) /\ fetched[r].DeletionTimestamp

HasCleanupFinalizer(obj) == containsFinalizer(obj.Finalizers, finalizerName)

(***************************************************************************)
(* C1. Finalizer before mutation: a pass is about to call CreateUser or    *)
(* UpdateUser only while the stored object carries the cleanup finalizer;  *)
(* and a pass whose finalizer-adding Update failed has ended with an error *)
(* and without any directory call.                                         *)
(***************************************************************************)
AddFinalizerFailed(r) ==
    /\ SyncPass(r)
    /\ ~HasCleanupFinalizer(fetched[r])
    /\ calls[r] # <<>>
    /\ calls[r][1].op = "Update"
    /\ calls[r][1].err # ""

C1_FinalizerBeforeMutation ==
    \A r \in Names :
       /\ pc[r] \in {"sync_get", "sync_create", "sync_update"} =>
             store[r].exists /\ HasCleanupFinalizer(store[r])
       /\ AddFinalizerFailed(r) =>
             /\ pc[r] = "idle"
             /\ result[r].outcome = "error"
             /\ result[r].err = "Update"
             /\ \A i \in 1..Len(calls[r]) : calls[r][i].op \notin DirectoryOps

\* a pass that added the finalizer itself is about to create the account,
\* while the pass of the other resource failed to add its finalizer
C1_Witness ==
    \E r, q \in Names :
       /\ pc[r] = "sync_create"
       /\ ~HasCleanupFinalizer(fetched[r])
       /\ AddFinalizerFailed(q)

(***************************************************************************)
(* C2. Subject-id stability: once the stored status.sub of a resource is   *)
(* non-empty, no step replaces it with a different non-empty value.        *)
(***************************************************************************)
C2_SubNeverReplaced ==
    [][\A r \in Names :
          store[r].Status.Sub # "" =>
             store'[r].Status.Sub \in {"", store[r].Status.Sub}]_vars

(***************************************************************************)
(* C3. No orphan on deletion: when a pass with a Directory Client          *)
(* configured has removed the cleanup finalizer of a resource that is      *)
(* being deleted, the pool holds no account that a pass of that resource   *)
(* created.                                                                *)
(***************************************************************************)
FinalizerRemoved(r) ==
    /\ DeletionPass(r)
    /\ HasCleanupFinalizer(fetched[r])
    /\ pc[r] = "idle"
    /\ LastCall(r).op = "Update"
    /\ LastCall(r).err = ""

C3_NoOrphanOnDeletion ==
    \A r \in Names :
       (binding # "none" /\ FinalizerRemoved(r)) =>
          \A a \in pool : a.Username \notin createdBy[r]

(***************************************************************************)
(* C4. Deletion is never blocked by the directory: a pass on a resource    *)
(* that is being deleted always ends with the finalizer-removing Update;   *)
(* when that Update succeeds the pass returns success with an empty result *)
(* and the stored object (if the platform has not removed it) no longer    *)
(* carries the cleanup finalizer, whatever GetUser and DeleteUser          *)
(* returned; the only error the deletion path returns is the Update's.     *)
(***************************************************************************)
C4_DeletionNeverBlocked ==
    \A r \in Names :
       (DeletionPass(r) /\ pc[r] = "idle") =>
          /\ LastCall(r).op = "Update"
          /\ LastCall(r).err = "" =>
                /\ result[r] = Success
                /\ store[r].exists => ~HasCleanupFinalizer(store[r])
                /\ ~HasCleanupFinalizer(user[r])
          /\ LastCall(r).err # "" =>
                result[r] = Failure("Update", LastCall(r).err, 0)

\* a deletion pass has returned success although a directory call failed
C4_Witness ==
    \E r \in Names :
       /\ DeletionPass(r)
       /\ pc[r] = "idle"
       /\ HasCleanupFinalizer(fetched[r])
       /\ result[r] = Success
       /\ \E i \in 1..Len(calls[r]) :
             calls[r][i].op \in {"GetUser", "DeleteUser"} /\ calls[r][i].err # ""

(***************************************************************************)
(* C5. Idempotent create: a pass that fetched the resource with an empty   *)
(* status.sub while the pool holds a matching account created by an        *)
(* earlier pass of the resource, and whose GetUser did not fail            *)
(* transiently, does not call CreateUser; and the pool never holds two     *)
(* accounts created for the same resource.                                 *)
(***************************************************************************)
\* accounts an earlier pass of r created and that match the spec r's pass fetched
MatchingAccount(r) ==
    {a \in pool : /\ a.Username \in createdBy[r]
                  /\ \A i \in 1..Len(calls[r]) :
                        \A m \in calls[r][i].made : m.Username # a.Username
                  /\ a.Email = fetched[r].Spec.Email
                  /\ a.Enabled = fetched[r].Spec.Enabled}

C5_IdempotentCreate ==
    \A r \in Names :
       /\ ( /\ SyncPass(r)
            /\ fetched[r].Status.Sub = ""
            /\ MatchingAccount(r) # {}
            /\ \A i \in CallsOf(r, "GetUser") : calls[r][i].err # "Transient" )
          => /\ pc[r] # "sync_create"
             /\ CallsOf(r, "CreateUser") = {}
       /\ Cardinality({a \in pool : a.Username \in createdBy[r]}) <= 1

(***************************************************************************)
(* C6. Status is persisted: after a pass on a resource without deletion    *)
(* marker has returned success with a Directory Client configured, the     *)
(* stored status carries the lastSyncTime stamped by this pass; when the   *)
(* pass created the account, the stored sub is that account's sub and the  *)
(* stored userPoolStatus is CONFIRMED.                                     *)
(***************************************************************************)
SyncSucceeded(r) ==
    /\ binding # "none"
    /\ SyncPass(r)
    /\ pc[r] = "idle"
    /\ result[r] = Success

SyncErrors == {"failed to create user in user pool", "failed to update user in user pool"}

\* syncUserWithUserPool has returned nil in the pass of r
SyncReturnedNil(r) ==
    /\ pc[r] \in {"update", "status", "idle"}
    /\ result[r].err \in SyncErrors => pc[r] # "idle"

Created(r) ==
    /\ SyncPass(r)
    /\ CallsOf(r, "CreateUser") # {}
    /\ \A i \in CallsOf(r, "CreateUser") : calls[r][i].err = ""

C7_CreatePath ==
    \A r \in Names :
       Created(r) =>
          /\ SyncReturnedNil(r)
          /\ \A i \in CallsOf(r, "CreateUser") :
                /\ i > 1
                /\ calls[r][i - 1].op = "GetUser"
                /\ calls[r][i - 1].err # ""
                /\ calls[r][i].user = [Username |-> r,
                                       Email |-> fetched[r].Spec.Email,
                                       Enabled |-> fetched[r].Spec.Enabled,
                                       Sub |-> ""]
                /\ user[r].Status = [Sub |-> calls[r][i].out.Sub,
                                     UserPoolStatus |-> CONFIRMED,
                                     LastSyncTime |-> passes[r]]
          /\ Cardinality(CallsOf(r, "CreateUser")) = 1
          /\ CallsOf(r, "UpdateUser") = {}

\* the create path has run on a resource whose owner disabled the user
C7_Witness ==
    \E r \in Names :
       /\ Created(r)
       /\ ~fetched[r].Spec.Enabled
       /\ user[r].Status.Sub # ""

(***************************************************************************)
(* C8. Update path: when GetUser has returned an account whose email or    *)
(* enabled flag differs from the spec, then once the sync step is over     *)
(* UpdateUser has been called exactly once, carrying the resource's name   *)
(* and the spec's email and enabled value, CreateUser has not been called, *)
(* and if UpdateUser succeeded lastSyncTime is stamped and a status.sub    *)
(* that was already set is unchanged.                                      *)
(***************************************************************************)
\* positions of the GetUser calls that found an account
FoundAt(r) == {i \in CallsOf(r, "GetUser") : calls[r][i].err = ""}

Drifted(r) ==
    /\ SyncPass(r)
    /\ \E i \in FoundAt(r) :
          \/ calls[r][i].out.Email # fetched[r].Spec.Email
          \/ calls[r][i].out.Enabled # fetched[r].Spec.Enabled

C8_UpdatePath ==
    \A r \in Names :
       Drifted(r) =>
          /\ CallsOf(r, "CreateUser") = {}
          /\ pc[r] = "sync_update" => CallsOf(r, "UpdateUser") = {}
          /\ pc[r] # "sync_update" =>
                /\ Cardinality(CallsOf(r, "UpdateUser")) = 1
                /\ \A i \in CallsOf(r, "UpdateUser") :
                      /\ calls[r][i].user = [Username |-> r,
                                             Email |-> fetched[r].Spec.Email,
                                             Enabled |-> fetched[r].Spec.Enabled,
                                             Sub |-> ""]
                      /\ calls[r][i].err = "" =>
                            /\ SyncReturnedNil(r)
                            /\ user[r].Status.LastSyncTime = passes[r]
                            /\ fetched[r].Status.Sub # "" =>
                                  user[r].Status.Sub = fetched[r].Status.Sub
                      /\ calls[r][i].err # "" =>
                            pc[r] = "idle" /\ result[r].err \in SyncErrors

\* UpdateUser has succeeded for a resource whose status.sub was already set
\* and whose enabled flag had drifted
C8_Witness ==
    \E r \in Names :
       /\ Drifted(r)
       /\ fetched[r].Status.Sub # ""
       /\ \E i \in FoundAt(r) : calls[r][i].out.Enabled # fetched[r].Spec.Enabled
       /\ \E i \in CallsOf(r, "UpdateUser") : calls[r][i].err = ""

(***************************************************************************)
(* C9. No-op path: when GetUser has returned an account whose email and    *)
(* enabled flag both equal the spec, the pass calls neither CreateUser nor *)
(* UpdateUser nor DeleteUser, syncUserWithUserPool has returned no error   *)
(* and lastSyncTime is stamped.                                            *)
(***************************************************************************)
UpToDate(r) ==
    /\ SyncPass(r)
    /\ \E i \in FoundAt(r) :
          /\ calls[r][i].out.Email = fetched[r].Spec.Email
          /\ calls[r][i].out.Enabled = fetched[r].Spec.Enabled

C9_NoOpPath ==
    \A r \in Names :
       UpToDate(r) =>
          /\ CallsOf(r, "CreateUser") = {}
          /\ CallsOf(r, "UpdateUser") = {}
          /\ CallsOf(r, "DeleteUser") = {}
          /\ SyncReturnedNil(r)
          /\ user[r].Status.LastSyncTime = passes[r]

\* the no-op path has run in a pass that is not the first of its resource
C9_Witness ==
    \E r \in Names : UpToDate(r) /\ passes[r] >= 2 /\ pc[r] = "idle"

(***************************************************************************)
(* C10. Retry on sync failure: when CreateUser or UpdateUser has returned  *)
(* an error in a pass on a resource without deletion marker, the pass has  *)
(* returned that error with a requeue hint of 5 minutes, and status (sub,  *)
(* userPoolStatus, lastSyncTime) is as it was fetched, in memory and in    *)
(* the object store: the stored lastSyncTime does not advance.             *)
(***************************************************************************)
SyncFailed(r) ==
    /\ SyncPass(r)
    /\ calls[r] # <<>>
    /\ LastCall(r).op \in {"CreateUser", "UpdateUser"}
    /\ LastCall(r).err # ""

C10_RetryOnSyncFailure ==
    \A r \in Names :
       SyncFailed(r) =>
          /\ pc[r] = "idle"
          /\ result[r].outcome = "error"
          /\ result[r].err = IF LastCall(r).op = "CreateUser"
                             THEN "failed to create user in user pool"
                             ELSE "failed to update user in user pool"
          /\ result[r].cause = LastCall(r).err
          /\ result[r].RequeueAfter = RequeueMinutes
          /\ user[r].Status = fetched[r].Status
          /\ store[r].exists
          /\ store[r].Status = fetched[r].Status

\* a pass has failed in UpdateUser on a resource that was synced before
C10_Witness ==
    \E r \in Names :
       /\ SyncFailed(r)
       /\ LastCall(r).op = "UpdateUser"
       /\ fetched[r].Status.LastSyncTime > 0

(***************************************************************************)
(* C11. Absent resource is a no-op: a pass whose fetch finds the resource  *)
(* absent from the object store (no failure of GetCluster or Get) ends at  *)
(* once with success and an empty result, has made no call, and changes    *)
(* neither the object store nor the user pool, whatever Directory Client   *)
(* is configured.                                                          *)
(***************************************************************************)
C11_AbsentIsNoOp ==
    [][\A r \in Names :
          ( /\ pc[r] = "idle"
            /\ passes'[r] # passes[r]
            /\ ~store[r].exists
            /\ faults' = faults )
          => /\ pc'[r] = "idle"
             /\ result'[r] = Success
             /\ calls'[r] = <<>>
             /\ store' = store
             /\ pool' = pool
             /\ subs' = subs]_vars

\* with a Directory Client configured and an account in the pool, a pass on
\* a resource that is gone has returned success without a call
C11_Witness ==
    \E r \in Names :
       /\ binding # "none"
       /\ pool # {}
       /\ ~store[r].exists
       /\ passes[r] > 0
       /\ pc[r] = "idle"
       /\ calls[r] = <<>>
       /\ result[r] = Success

(***************************************************************************)
(* C12. Deletion without a Directory Client: a pass that fetched a         *)
(* resource with a deletion marker while no Directory Client is configured *)
(* has removed the cleanup finalizer, the stored object no longer carries  *)
(* it, and the pass has not returned an error.                             *)
(***************************************************************************)
C12_DeletionWithoutClient ==
    \A r \in Names :
       (binding = "none" /\ DeletionPass(r) /\ pc[r] = "idle") =>
          /\ result[r].outcome # "error"
          /\ store[r].exists => ~HasCleanupFinalizer(store[r])

(***************************************************************************)
(* C12, amended. Such a pass goes straight to the finalizer-removing       *)
(* Update, which is its only call; it removes the cleanup finalizer from   *)
(* the object it writes; when the Update succeeds the stored object no     *)
(* longer carries the finalizer and the pass returns success with an empty *)
(* result; the only error the pass returns is the error of that Update.    *)
(***************************************************************************)
C12_DeletionWithoutClientAmended ==
    \A r \in Names :
       (binding = "none" /\ DeletionPass(r)) =>
          /\ pc[r] \in {"remove_finalizer", "idle"}
          /\ pc[r] = "idle" =>
                /\ Len(calls[r]) = 1
                /\ LastCall(r).op = "Update"
                /\ ~HasCleanupFinalizer(user[r])
                /\ LastCall(r).err = "" =>
                      /\ result[r] = Success
                      /\ store[r].exists => ~HasCleanupFinalizer(store[r])
                /\ LastCall(r).err # "" =>
                      result[r] = Failure("Update", LastCall(r).err, 0)

\* without a Directory Client, a deletion pass on a resource that carried the
\* cleanup finalizer has returned success and the platform removed the object
C12_Witness ==
    \E r \in Names :
       /\ binding = "none"
       /\ DeletionPass(r)
       /\ pc[r] = "idle"
       /\ HasCleanupFinalizer(fetched[r])
       /\ result[r] = Success
       /\ ~store[r].exists

(***************************************************************************)
(* C13. Sync disabled without a Directory Client: with no Directory Client *)
(* configured, a pass on a resource without deletion marker makes no       *)
(* directory call and leaves status.sub, userPoolStatus and lastSyncTime   *)
(* as fetched, in memory and in the object store; its calls are the        *)
(* finalizer-adding Update (when the fetched object lacked the finalizer), *)
(* the Update that carries the lastReconciledAt stamp, and the status      *)
(* Update; once these writes have succeeded the stored object carries the  *)
(* cleanup finalizer and this pass's lastReconciledAt stamp and the pass   *)
(* has returned success with an empty result.                              *)
(***************************************************************************)
\* the object-store calls a pass without Directory Client makes, in order
StoreOnlyCalls(r) ==
    (IF HasCleanupFinalizer(fetched[r]) THEN <<>> ELSE <<"Update">>)
        \o <<"Update", "StatusUpdate">>

\* the pass of r has ended and none of its calls failed
AllCallsSucceeded(r) ==
    /\ pc[r] = "idle"
    /\ \A i \in 1..Len(calls[r]) : calls[r][i].err = ""

C14_LookupIdentifier ==
    \A r \in Names :
       SyncPass(r) =>
          \A i \in CallsOf(r, "GetUser") :
             calls[r][i].id =
                IF fetched[r].Status.Sub # "" THEN fetched[r].Status.Sub
                ELSE IF fetched[r].Spec.Email # "" THEN fetched[r].Spec.Email
                ELSE r

(***************************************************************************)
(* C15. Cleanup lookup on deletion: in a deletion pass with a Directory    *)
(* Client configured, GetUser is called once, with the stored sub when it  *)
(* is non-empty and with the local name otherwise; DeleteUser is called    *)
(* exactly once, with that same identifier, when GetUser succeeded, and    *)
(* not at all when GetUser returned an error (account absent); in both     *)
(* cases the pass goes on to remove the finalizer.                         *)
(***************************************************************************)
\* the identifier the claim gives for the cleanup of r
CleanupIdOf(r) ==
    IF fetched[r].Status.Sub # "" THEN fetched[r].Status.Sub ELSE r

\* the deletion pass of r is past deleteUserFromUserPool
CleanupOver(r) == pc[r] \in {"remove_finalizer", "idle"}

C15_CleanupLookup ==
    \A r \in Names :
       (binding # "none" /\ DeletionPass(r)) =>
          /\ pc[r] = "cleanup_get" => calls[r] = <<>>
          /\ pc[r] # "cleanup_get" =>
                /\ CallsOf(r, "GetUser") = {1}
                /\ calls[r][1].id = CleanupIdOf(r)
                /\ calls[r][1].err = "" =>
                      IF pc[r] = "cleanup_delete"
                      THEN CallsOf(r, "DeleteUser") = {}
                      ELSE /\ CallsOf(r, "DeleteUser") = {2}
                           /\ calls[r][2].id = CleanupIdOf(r)
                           /\ CleanupOver(r)
                /\ calls[r][1].err # "" =>
                      /\ CallsOf(r, "DeleteUser") = {}
                      /\ CleanupOver(r)
          /\ pc[r] = "idle" =>
                /\ LastCall(r).op = "Update"
                /\ ~HasCleanupFinalizer(user[r])

\* a deletion pass found the account under the stored sub, deleted it and
\* removed the finalizer
C15_Witness ==
    \E r \in Names :
       /\ binding # "none"
       /\ DeletionPass(r)
       /\ fetched[r].Status.Sub # ""
       /\ pc[r] = "idle"
       /\ CallsOf(r, "DeleteUser") = {2}
       /\ calls[r][2].err = ""
       /\ result[r] = Success
       /\ pool = {}

(***************************************************************************)
(* C16. Finalizer round-trip: for every list S (the empty one and lists    *)
(* that already contain m included) and every marker m,                    *)
(* removeFinalizer(append(S, m), m) equals S.                              *)
(***************************************************************************)
RoundTripDone == finalizerRun.step = "added_removed"

C16_RoundTrip ==
    RoundTripDone => finalizerRun.result = finalizerRun.original

(***************************************************************************)
(* C16, amended. For every list S that does not contain m (the empty one   *)
(* included) and every marker m, removeFinalizer(append(S, m), m) equals   *)
(* S.                                                                      *)
(***************************************************************************)
C16_RoundTripAmended ==
    ( /\ RoundTripDone
      /\ ~containsFinalizer(finalizerRun.original, finalizerRun.finalizer) )
    => finalizerRun.result = finalizerRun.original

\* the round trip has given back a list of two different foreign finalizers
C16_Witness ==
    /\ RoundTripDone
    /\ Len(finalizerRun.original) = 2
    /\ finalizerRun.original[1] # finalizerRun.original[2]
    /\ ~containsFinalizer(finalizerRun.original, finalizerRun.finalizer)
    /\ finalizerRun.finalizers = Append(finalizerRun.original, finalizerRun.finalizer)
    /\ finalizerRun.result = finalizerRun.original

(***************************************************************************)
(* C17. removeFinalizer(S, m) is exactly the entries of S that differ from *)
(* m, in their order in S; it is empty, and not nil, when S is empty or    *)
(* holds nothing but m; and containsFinalizer(result, m) is false.         *)
(***************************************************************************)
RemoveDone == finalizerRun.step \in {"removed", "added_removed"}

C17_RemoveFinalizer ==
    RemoveDone =>
       LET S == finalizerRun.finalizers
           m == finalizerRun.finalizer
           out == finalizerRun.result
       IN  /\ out = SelectSeq(S, LAMBDA f : f # m)
           /\ ~containsFinalizer(out, m)
           /\ ~finalizerRun.resultIsNil
           /\ (\A i \in 1..Len(S) : S[i] = m) => out = <<>>

\* two occurrences of the marker have been removed around a foreign entry
C17_Witness ==
    /\ finalizerRun.step = "removed"
    /\ Len(finalizerRun.finalizers) = 3
    /\ finalizerRun.finalizers[1] = finalizerRun.finalizer
    /\ finalizerRun.finalizers[2] # finalizerRun.finalizer
    /\ finalizerRun.finalizers[3] = finalizerRun.finalizer
    /\ finalizerRun.result = <<finalizerRun.finalizers[2]>>

(***************************************************************************)
(* C18. Directory create is idempotent under "already exists": CreateUser  *)
(* for an account that already exists in the pool leaves the pool as it    *)
(* was (no second account, the existing one unaltered) and, unless a       *)
(* provider call fails, returns no error and the existing account (its     *)
(* username, e-mail and enabled flag); a provider failure is returned as   *)
(* an error with a nil account, the pool unchanged.                        *)
(***************************************************************************)
\* the account under which binding b would create u, if the pool p holds it:
\* AWSClient creates under the e-mail, MockClient under the username
ExistingFor(b, p, u) == Lookup(p, IF b = "aws" THEN u.Email ELSE u.Username)

CreateOnExisting ==
    /\ clientRun.op = "CreateUser"
    /\ ExistingFor(binding, clientRun.before, clientRun.user) # {}

SameAccount(u, a) ==
    /\ u.Username = a.Username
    /\ u.Email = a.Email
    /\ u.Enabled = a.Enabled

AddressedBy(b, p, id) == IF b = "aws" THEN Resolve(p, id) ELSE Lookup(p, id)

DeleteOfAbsent ==
    /\ clientRun.op = "DeleteUser"
    /\ clientRun.id # ""
    /\ AddressedBy(binding, clientRun.before, clientRun.id) = {}

C19_DeleteNotFoundIsSuccess ==
    clientRun.op = "DeleteUser" =>
       /\ DeleteOfAbsent =>
             /\ pool = clientRun.before
             /\ clientRun.fault = "ok" => clientRun.err = ""
       /\ clientRun.fault # "ok" => clientRun.err # ""

(***************************************************************************)
(* C20. ListUsers enumerates all accounts: its first request carries a nil *)
(* token, every further request the token the previous response returned,  *)
(* and no request follows a response with a nil token; when no request     *)
(* fails it returns, without error, the entries of all pages that have a   *)
(* username, in page order (nothing, as a nil slice, for an empty pool);   *)
(* when a request fails it returns the error and a nil result.             *)
(***************************************************************************)
RECURSIVE Flatten(_)
Flatten(pages) ==
    IF pages = <<>> THEN <<>> ELSE Head(pages) \o Flatten(Tail(pages))

\* the e-mail of an entry: the value of its first email attribute, if any
EmailAttribute(e) ==
    LET at == {j \in 1..Len(e.Attributes) : e.Attributes[j].Name = "email"}
    IN  IF at = {} THEN ""
        ELSE e.Attributes[CHOOSE j \in at : \A k \in at : j <= k].Value

\* the accounts of a listing: its entries with a username, in order
AccountsOf(pages) ==
    LET named == SelectSeq(Flatten(pages), LAMBDA e : e.hasUsername)
    IN  [i \in 1..Len(named) |->
            [Username |-> named[i].Username, Email |-> EmailAttribute(named[i]),
             Enabled |-> named[i].Enabled, Sub |-> ""]]

\* the token the response to request i of the run carried
TokenAfter(i) ==
    CognitoListUsers(listRun.pages, listRun.requests[i]).PaginationToken

ListReturned == listRun.step = "returned"

C20_ListUsersEnumeratesAll ==
    ListReturned =>
       LET n == Len(listRun.requests) IN
       /\ n >= 1
       /\ listRun.requests[1] = NilToken
       /\ \A i \in 2..n :
             /\ TokenAfter(i - 1) # NilToken
             /\ listRun.requests[i] = TokenAfter(i - 1)
       /\ listRun.failAt \in 1..n => listRun.err # ""
       /\ listRun.err = "" =>
             /\ TokenAfter(n) = NilToken
             /\ listRun.users = AccountsOf(listRun.pages)
             /\ Flatten(listRun.pages) = <<>> =>
                   listRun.users = <<>> /\ listRun.usersIsNil
       /\ listRun.err # "" =>
             /\ listRun.failAt = n
             /\ listRun.users = <<>>
             /\ listRun.usersIsNil

\* two pages have been listed, an entry without username skipped
C20_Witness ==
    /\ ListReturned
    /\ listRun.err = ""
    /\ Len(listRun.requests) = 2
    /\ Len(listRun.pages[1]) = 2
    /\ ~listRun.pages[1][1].hasUsername
    /\ Len(listRun.users) = 2
    /\ listRun.users[1].Username = "a@x"
    /\ listRun.users[2].Username = "b@x"

(***************************************************************************)
(* C24. Fatal wiring errors are surfaced without retry hint: a pass that   *)
(* ends in its first step with an error (the cluster lookup failed, or the *)
(* Get failed with an error other than not-found) returns that error -     *)
(* "failed to get cluster: <cause>" for the cluster lookup - with an empty *)
(* result (no requeue delay), has made no call to the object store or the  *)
(* directory, and leaves the object store and the user pool as they were.  *)
(***************************************************************************)
\* the pass of r begins and returns an error in this very step
FailsAtFetch(r) ==
    /\ passes'[r] # passes[r]
    /\ pc'[r] = "idle"
    /\ result'[r].outcome = "error"

C24_WiringErrorsNoRetryHint ==
    [][\A r \in Names :
          FailsAtFetch(r) =>
             /\ result'[r] \in {Failure("failed to get cluster", "Transient", 0),
                                Failure("Get", "Transient", 0)}
             /\ result'[r].RequeueAfter = 0
             /\ calls'[r] = <<>>
             /\ store' = store
             /\ pool' = pool
             /\ user' = user]_vars

\* the cluster lookup has failed for a resource that an earlier pass had
\* synced with the directory
C24_Witness ==
    \E r \in Names :
       /\ pc[r] = "idle"
       /\ passes[r] >= 2
       /\ calls[r] = <<>>
       /\ result[r] = Failure("failed to get cluster", "Transient", 0)
       /\ store[r].exists
       /\ store[r].Status.Sub # ""
       /\ pool # {}

(***************************************************************************)
(* C29. Deletion pass stops after finalizer removal: a pass on a resource  *)
(* fetched with a deletion marker calls neither CreateUser nor UpdateUser, *)
(* never holds the cleanup finalizer again once it has removed it, never   *)
(* stamps the lastReconciledAt annotation and never writes the status      *)
(* sub-resource; its only object-store write is one Update, the last call  *)
(* of the pass, issued after the cleanup attempt (GetUser, then DeleteUser *)
(* if the account was found) and carrying the fetched finalizers without   *)
(* the cleanup finalizer.                                                  *)
(***************************************************************************)
DeletionSteps == {"cleanup_get", "cleanup_delete", "remove_finalizer", "idle"}

C29_DeletionPassStops ==
    \A r \in Names :
       DeletionPass(r) =>
          /\ pc[r] \in DeletionSteps
          /\ \A i \in 1..Len(calls[r]) :
                /\ calls[r][i].op \in {"GetUser", "DeleteUser", "Update"}
                /\ calls[r][i].op = "Update" =>
                      /\ i = Len(calls[r])
                      /\ pc[r] = "idle"
                      /\ binding # "none" => (i > 1 /\ calls[r][1].op = "GetUser")
                      /\ user[r].Finalizers =
                             removeFinalizer(fetched[r].Finalizers, finalizerName)
                      /\ ~HasCleanupFinalizer(user[r])
          /\ pc[r] = "idle" => Cardinality(CallsOf(r, "Update")) = 1
          /\ user[r].lastReconciledAt = fetched[r].lastReconciledAt
          /\ user[r].Status = fetched[r].Status
          /\ store[r].exists =>
                /\ store[r].lastReconciledAt = fetched[r].lastReconciledAt
                /\ store[r].Status = fetched[r].Status

\* a deletion pass has deleted the account of a resource that earlier passes
\* had stamped, removed the finalizer and returned
C29_Witness ==
    \E r \in Names :
       /\ DeletionPass(r)
       /\ pc[r] = "idle"
       /\ result[r] = Success
       /\ fetched[r].lastReconciledAt > 0
       /\ HasCleanupFinalizer(fetched[r])
       /\ \E i \in CallsOf(r, "DeleteUser") : calls[r][i].err = ""
       /\ Len(calls[r]) = 3

(***************************************************************************)
(* C25. Create only on not-found: in a sync pass every CreateUser call     *)
(* follows a GetUser that reported the account absent; and a pass whose    *)
(* GetUser failed for another reason does not go on to CreateUser: it has  *)
(* returned a retryable error, has called neither CreateUser nor           *)
(* UpdateUser and holds the status as it was fetched.  (Stated for passes  *)
(* that look the account up with a non-empty identifier.)                  *)
(***************************************************************************)
\* the errors by which GetUser reports that the account is absent
AbsentErrors == {"NotFound", "UserNotFoundException"}

\* positions of the GetUser calls that failed for another reason
GetFailedAt(r) ==
    {i \in CallsOf(r, "GetUser") : calls[r][i].err \notin AbsentErrors \cup {""}}

C25_CreateOnlyOnNotFound ==
    \A r \in Names :
       (SyncPass(r) /\ syncIdentifier(fetched[r]) # "") =>
          /\ \A i \in CallsOf(r, "CreateUser") :
                /\ i > 1
                /\ calls[r][i - 1].op = "GetUser"
                /\ calls[r][i - 1].err \in AbsentErrors
          /\ GetFailedAt(r) # {} =>
                /\ pc[r] = "idle"
                /\ result[r].outcome = "error"
                /\ result[r].RequeueAfter = RequeueMinutes
                /\ CallsOf(r, "CreateUser") = {}
                /\ CallsOf(r, "UpdateUser") = {}
                /\ user[r].Status = fetched[r].Status

(***************************************************************************)
(* C26. Last-reconciled stamp is independent of directory sync: when a     *)
(* pass on a resource without deletion marker has ended and none of its    *)
(* object-store writes failed, the stored lastReconciledAt annotation is   *)
(* the time of this pass - also when the directory sync of the pass failed *)
(* and the pass returned a retryable error.                                *)
(***************************************************************************)
StoreOps == {"Update", "StatusUpdate"}

\* the pass of r is over and no object-store write of it failed
WritesSucceeded(r) ==
    /\ pc[r] = "idle"
    /\ \A i \in 1..Len(calls[r]) : calls[r][i].op \in StoreOps => calls[r][i].err = ""

C26_StampIndependentOfSync ==
    \A r \in Names :
       (SyncPass(r) /\ WritesSucceeded(r) /\ store[r].exists) =>
          store[r].lastReconciledAt = passes[r]

(***************************************************************************)
(* C23. Two-write persistence tolerates partial failure: in a pass the     *)
(* status Update directly follows a resource Update that succeeded; a pass *)
(* whose status Update failed has returned that error; and when the pass   *)
(* after one that failed in the status Update ends with success, having    *)
(* fetched an empty status.sub while the pool holds the account an earlier *)
(* pass created for the resource, the status it stores carries the subject *)
(* id of that account and the pass has created no account.                 *)
(***************************************************************************)
\* the accounts of r in the pool that the current pass of r did not create
EarlierAccounts(r) ==
    {a \in pool : /\ a.Username \in createdBy[r]
                  /\ \A i \in 1..Len(calls[r]) : a \notin calls[r][i].made}

\* this step ends with success the pass that follows a pass of r that failed
\* in the status Update
SucceedsAfterStatusFailure(r) ==
    /\ pc[r] = "status"
    /\ pc'[r] = "idle"
    /\ result[r].outcome = "error"
    /\ result[r].err = "StatusUpdate"
    /\ result'[r] = Success
    /\ ~fetched[r].DeletionTimestamp
    /\ fetched[r].Status.Sub = ""

StatusWriteOrdered(r) ==
    \A i \in CallsOf(r, "StatusUpdate") :
       /\ i > 1
       /\ calls[r][i - 1].op = "Update"
       /\ calls[r][i - 1].err = ""
       /\ calls[r][i].err # "" =>
             /\ pc[r] = "idle"
             /\ result[r] = Failure("StatusUpdate", calls[r][i].err, 0)

C23_TwoWritePersistence ==
    [][\A r \in Names :
          /\ StatusWriteOrdered(r)'
          /\ SucceedsAfterStatusFailure(r) =>
                \A a \in EarlierAccounts(r) :
                   /\ store'[r].Status.Sub = a.Sub
                   /\ \A i \in 1..Len(calls[r]) : calls[r][i].made = {}
                   /\ Cardinality({b \in pool : b.Username \in createdBy[r]}) = 1]_vars

(***************************************************************************)
(* C27. Engine never mutates spec and owns status exclusively, as claimed: *)
(* no step but the owner's changes the stored spec of a resource - also    *)
(* when the owner updates the spec between the fetch of a pass and its     *)
(* full-object Updates - and the stored status changes only in the step    *)
(* that ends a pass with success.                                          *)
(***************************************************************************)
\* the step is the owner's update of a spec
OwnerStep == changes' # changes

\* the step is the status write that ends the pass of r with success
CompletesPass(r) ==
    /\ pc[r] = "status"
    /\ pc'[r] = "idle"
    /\ result'[r] = Success

StatusOwnedByCompletedPass(r) ==
    store'[r].Status # store[r].Status => CompletesPass(r)

Rerun(r) ==
    /\ SyncPass(r)
    /\ lastSynced[r].at > 0
    /\ lastSynced[r].at = passes[r] - 1
    /\ fetched[r].Spec = lastSynced[r].Spec
    /\ pool = lastSynced[r].pool
    /\ \A i \in 1..Len(calls[r]) : calls[r][i].err = ""

\* number of occurrences of the finalizer in the list
Occurrences(finalizers, finalizer) ==
    Cardinality({i \in 1..Len(finalizers) : finalizers[i] = finalizer})

C28_ReentrantUnderDuplicateTriggers ==
    \A r \in Names :
       Rerun(r) =>
          /\ pc[r] \in {"sync_get", "update", "status", "idle"}
          /\ \A i \in 1..Len(calls[r]) :
                calls[r][i].op \in {"GetUser", "Update", "StatusUpdate"}
          /\ user[r].Status.Sub = fetched[r].Status.Sub
          /\ store[r].exists => store[r].Status.Sub = fetched[r].Status.Sub
          /\ Occurrences(user[r].Finalizers, finalizerName) = 1
          /\ store[r].exists => Occurrences(store[r].Finalizers, finalizerName) = 1

(***************************************************************************)
(* C30. Directory update changes only drift-allowed fields: after a        *)
(* successful UpdateUser of either binding the pool holds the accounts it  *)
(* held before, the targeted account with its username and subject id,     *)
(* every other account untouched; and GetUser returns, for every           *)
(* identifier it resolved before the update, the same username and subject *)
(* id as before.                                                           *)
(***************************************************************************)
UpdateSucceeded ==
    /\ clientRun.op = "UpdateUser"
    /\ clientRun.err = ""

C30_UpdateChangesOnlyDriftFields ==
    UpdateSucceeded =>
       LET before == clientRun.before
           target == AddressedBy(binding, before, clientRun.user.Username)
       IN  /\ target # {}
           /\ \A a \in before \ target : a \in pool
           /\ \A a \in target :
                 \E b \in pool : b.Username = a.Username /\ b.Sub = a.Sub
           /\ Cardinality(pool) = Cardinality(before)
           /\ \A id \in ClientIds :
                 LET was == GetUser(binding, before, id, subs, "ok")
                     now == GetUser(binding, pool, id, subs, "ok")
                 IN  was.err = "" =>
                        /\ now.err = ""
                        /\ now.user.Username = was.user.Username
                        /\ now.user.Sub = was.user.Sub

(***************************************************************************)
(* C21. Convergence: under at-least-once delivery of triggers, with        *)
(* failures that end and a spec that stays fixed from some time on, every  *)
(* resource that is not deleted and whose spec.email is not empty is from  *)
(* some time on converged: its stored status.sub is set and the account    *)
(* the Directory Client addresses by it has the e-mail and the enabled     *)
(* flag of the spec.  (With no Directory Client there is nothing to        *)
(* converge to.)                                                           *)
(***************************************************************************)
Converged(r) ==
    /\ store[r].Status.Sub # ""
    /\ \E a \in AddressedBy(binding, pool, store[r].Status.Sub) :
          /\ a.Email = store[r].Spec.Email
          /\ a.Enabled = store[r].Spec.Enabled

\* nothing is asked of r: it is deleted or being deleted, it has no e-mail,
\* or no Directory Client is configured
NothingToSync(r) ==
    \/ ~store[r].exists
    \/ store[r].DeletionTimestamp
    \/ store[r].Spec.Email = ""
    \/ binding = "none"

C21_Convergence ==
    \A r \in LiveNames : <>[](NothingToSync(r) \/ Converged(r))

(***************************************************************************)
(* C22. Deletion completes: under at-least-once delivery of triggers, with *)
(* store failures that end, a resource whose deletion marker is set is     *)
(* eventually without the cleanup finalizer in the store (and removed by   *)
(* the platform), even when every directory call of the deletion path      *)
(* fails.                                                                  *)
(***************************************************************************)
Deleting(r) == store[r].exists /\ store[r].DeletionTimestamp

Released(r) == ~store[r].exists \/ ~HasCleanupFinalizer(store[r])

C22_DeletionCompletes ==
    \A r \in LiveNames : Deleting(r) ~> Released(r)

\* a deletion pass whose directory call failed has removed the finalizer,
\* after a failure of the store had been used up, and the resource is gone
C22_Witness ==
    \E r \in LiveNames :
       /\ ~store[r].exists
       /\ DeletionPass(r)
       /\ HasCleanupFinalizer(fetched[r])
       /\ pc[r] = "idle"
       /\ result[r] = Success
       /\ faults = MaxFaults
       /\ calls[r][1].op = "GetUser"
       /\ calls[r][1].err = "Transient"

(***************************************************************************)
(* C31. Update acts on the account that was looked up: when a sync pass is *)
(* about to call UpdateUser, the identifier in the account it passes       *)
(* (poolUser.Username) addresses, in the directory, the account that the   *)
(* identifier of its GetUser (status.sub when known, else spec.email)      *)
(* addresses.                                                              *)
(***************************************************************************)
C31_UpdateActsOnLookedUpAccount ==
    \A r \in Names :
       pc[r] = "sync_update" =>
          AddressedBy(binding, pool, poolUserOf(r, user[r]).Username)
             = AddressedBy(binding, pool, syncIdentifier(user[r]))

(***************************************************************************)
(* C32. Subject id consistent between create and get: a GetUser that finds *)
(* an account which a CreateUser created returns the subject id that the   *)
(* CreateUser reported for it, whatever identifier (subject id, e-mail or  *)
(* username) it was found by.                                              *)
(***************************************************************************)
GetFound == clientRun.op = "GetUser" /\ clientRun.err = ""

C32_SubConsistentCreateGet ==
    GetFound =>
       \A a \in AddressedBy(binding, clientRun.before, clientRun.id) :
          \A e \in clientRun.reported :
             e.Username = a.Username => clientRun.out.Sub = e.Sub

(***************************************************************************)
(* C33. One account per resource: two resources never carry the same       *)
(* non-empty stored status.sub, and a pass of one resource that is about   *)
(* to call UpdateUser or DeleteUser does not address an account linked to  *)
(* another resource (the account its stored status.sub addresses) -- also  *)
(* when the two resources have the same spec.email.                        *)
(***************************************************************************)
\* the accounts the stored status.sub of q addresses
LinkedTo(q) ==
    IF store[q].exists /\ store[q].Status.Sub # ""
    THEN AddressedBy(binding, pool, store[q].Status.Sub)
    ELSE {}

\* the accounts the directory call that the pass of r is about to make addresses
Targeted(r) ==
    IF pc[r] = "sync_update"
    THEN AddressedBy(binding, pool, poolUserOf(r, user[r]).Username)
    ELSE IF pc[r] = "cleanup_delete"
    THEN AddressedBy(binding, pool, cleanupIdentifier(r, user[r].Status.Sub))
    ELSE {}

C33_OneAccountPerResource ==
    \A r, q \in Names :
       r # q =>
          /\ (store[r].exists /\ store[q].exists /\ store[r].Status.Sub # "")
                => store[r].Status.Sub # store[q].Status.Sub
          /\ Targeted(r) \cap LinkedTo(q) = {}

(***************************************************************************)
(* C34. Concurrent passes for different resources do not interfere: when   *)
(* one pass per resource has run, the passes interleaving at their calls   *)
(* in any way, the resources having different names and e-mails, the       *)
(* stored objects (status included) and the directory accounts are those   *)
(* that running the passes one after the other, in one order or the other, *)
(* produces from the same state.                                           *)
(***************************************************************************)
\* the run of the passes is over: both have ended, or the process has stopped
RunOver ==
    /\ concurrentRun.phase = "run"
    /\ \/ concurrentRun.crashed
       \/ /\ concurrentRun.started = Names
          /\ \A r \in Names : pc[r] = "idle" /\ ~InMethod(r)

\* the pass of r, then the pass of q, from the recorded state
OneAfterTheOther(r, q) ==
    Reconcile(binding, q, Reconcile(binding, r, concurrentRun.base))

AWSUpdateStep ==
    /\ binding = "aws"
    /\ clientRun'.n = clientRun.n + 1
    /\ clientRun'.op = "UpdateUser"
    /\ clientRun'.user.Username # ""

\* pool q is pool p with the e-mail and the enabled flag of account a replaced
Changed(p, q, a, email, enabled) ==
    /\ a \in p
    /\ q = (p \ {a}) \cup {[a EXCEPT !.Email = email, !.Enabled = enabled]}

\* the step repeats the call before it, which failed in its second request,
\* and succeeds
RepeatsFailedUpdate ==
    /\ clientRun'.retry
    /\ Len(clientRun.api) = 2
    /\ clientRun'.err = ""

C35_UpdateUserStepOrder ==
    [][AWSUpdateStep =>
          LET u == clientRun'.user
              api == clientRun'.api
              second == IF u.Enabled THEN "AdminEnableUser" ELSE "AdminDisableUser"
          IN  /\ Len(api) >= 1
              /\ api[1].api = "AdminUpdateUserAttributes"
              /\ api[1].err # "" =>
                    /\ Len(api) = 1
                    /\ clientRun'.err # ""
                    /\ pool' = pool
              /\ api[1].err = "" =>
                    /\ Len(api) = 2
                    /\ api[2].api = second
                    /\ api[2].err # "" =>
                          /\ clientRun'.err # ""
                          /\ \E a \in pool : Changed(pool, pool', a, u.Email, a.Enabled)
                    /\ api[2].err = "" =>
                          /\ clientRun'.err = ""
                          /\ \E a \in pool : Changed(pool, pool', a, u.Email, u.Enabled)
              /\ RepeatsFailedUpdate =>
                    \E a \in clientRun.before :
                       Changed(clientRun.before, pool', a, u.Email, u.Enabled)
      ]_vars

\* an UpdateUser that failed in AdminDisableUser, with the e-mail already
\* changed, has been repeated and has succeeded
C35_Witness ==
    /\ binding = "aws"
    /\ clientRun.retry
    /\ clientRun.op = "UpdateUser"
    /\ clientRun.err = ""
    /\ clientRun.user.Email = "b@x"
    /\ ~clientRun.user.Enabled
    /\ Len(clientRun.api) = 2
    /\ clientRun.api[2].api = "AdminDisableUser"
    /\ \E a \in clientRun.before : a.Email = "b@x" /\ a.Enabled
    /\ \E a \in pool : a.Email = "b@x" /\ ~a.Enabled /\ a.Username = "a@x"

(***************************************************************************)
(* C36. Reconcile preserves foreign finalizers: every step of a pass       *)
(* leaves the finalizers of the stored resource other than                 *)
(* kcp.cogniteo.io/user-pool-cleanup as they are, in their order.          *)
(***************************************************************************)
\* the entries of a finalizer list other than the cleanup finalizer
Foreign(finalizers) == SelectSeq(finalizers, LAMBDA f : f # finalizerName)

\* the step is a step of a pass of r
PassStep(r) == pc'[r] # pc[r] \/ calls'[r] # calls[r] \/ passes'[r] # passes[r]

\* the step is a write of a pass of r to the object store that succeeds
PassWrites(r, position) ==
    /\ pc[r] = position
    /\ Len(calls'[r]) = Len(calls[r]) + 1
    /\ calls'[r][Len(calls'[r])].err = ""

FindReturned == findRun.step = "returned"

\* entry e is a pool of the name asked for, ignoring case, with an id
Matching(e, name) == e.hasName /\ e.hasId /\ Fold(e.Name) = Fold(name)

\* the places <<page, index>> of the matching pools
Hits ==
    {h \in (1..Len(findRun.pages)) \X (1..MaxPageSize + 1) :
        /\ h[2] <= Len(findRun.pages[h[1]])
        /\ Matching(findRun.pages[h[1]][h[2]], findRun.userPoolName)}

FirstHit ==
    CHOOSE h \in Hits :
       \A g \in Hits : h = g \/ h[1] < g[1] \/ (h[1] = g[1] /\ h[2] < g[2])

\* the number of requests that lists all pools
AllPages == IF Len(findRun.pages) = 0 THEN 1 ELSE Len(findRun.pages)

\* the requests up to the one that serves the first match, or all
LastNeeded == IF Hits # {} THEN FirstHit[1] ELSE AllPages

C37_FindUserPoolIDByName ==
    FindReturned =>
       /\ \A k \in 1..Len(findRun.requests) :
             findRun.requests[k] = IF k = 1 THEN NilToken ELSE k
       /\ IF findRun.failAt \in 1..LastNeeded
          THEN /\ findRun.id = ""
               /\ findRun.err = "failed to list user pools"
               /\ Len(findRun.requests) = findRun.failAt
          ELSE IF Hits # {}
          THEN /\ findRun.id = findRun.pages[FirstHit[1]][FirstHit[2]].Id
               /\ findRun.err = ""
               /\ Len(findRun.requests) = FirstHit[1]
          ELSE /\ findRun.id = ""
               /\ findRun.err = "user pool not found"
               /\ Len(findRun.requests) = AllPages

\* the id returned is that of the second pool of the second page, named in
\* another case, after a pool of the name without an id and a nameless pool
\* on the first page, and with a later match that is not returned
C37_Witness ==
    /\ FindReturned
    /\ findRun.userPoolName = "Users"
    /\ Len(findRun.pages) = 2
    /\ Len(findRun.pages[1]) = 2
    /\ findRun.pages[1][1].Name = "users" /\ ~findRun.pages[1][1].hasId
    /\ ~findRun.pages[1][2].hasName
    /\ Len(findRun.pages[2]) = 2
    /\ findRun.pages[2][1].Name = "other"
    /\ findRun.pages[2][2].Name = "USERS"
    /\ findRun.id = "id-2"
    /\ findRun.err = ""
    /\ findRun.requests = <<NilToken, 2>>

(***************************************************************************)
(* C38. AWSClient validates its input before any provider call:            *)
(* CreateUser with a nil user or an empty e-mail, UpdateUser with a nil    *)
(* user or an empty username, GetUser and DeleteUser with an empty         *)
(* identifier return an error and a nil account, send no request to the    *)
(* Cognito API and leave the directory as it was.                          *)
(***************************************************************************)
\* the last call is one of AWSClient with an argument it refuses; a nil user
\* is NilUser
Refused ==
    /\ binding = "aws"
    /\ \/ /\ clientRun.op = "CreateUser"
          /\ clientRun.user = NilUser \/ clientRun.user.Email = ""
       \/ /\ clientRun.op = "UpdateUser"
          /\ clientRun.user = NilUser \/ clientRun.user.Username = ""
       \/ /\ clientRun.op \in {"GetUser", "DeleteUser"}
          /\ clientRun.id = ""

C38_ValidationBeforeProviderCall ==
    Refused =>
       /\ clientRun.err # ""
       /\ clientRun.out = NilUser
       /\ clientRun.api = <<>>
       /\ pool = clientRun.before

\* CreateUser with a username and no e-mail is refused on a pool with an
\* account, after calls that have sent requests
C38_Witness ==
    /\ Refused
    /\ clientRun.n = MaxClientCalls
    /\ clientRun.op = "CreateUser"
    /\ clientRun.user.Username = "alice"
    /\ clientRun.user.Email = ""
    /\ clientRun.err = "Invalid"
    /\ clientRun.api = <<>>
    /\ pool # {}
    /\ pool = clientRun.before
====
